---- MODULE Spec2Model ----
(***************************************************************************)
(* The Sleeper league lookup session of the frontend: the state of the     *)
(* SleeperLookupForm component, its handlers and its effect, the three     *)
(* client calls of lib/api/sleeper.ts with the requests they keep in       *)
(* flight, and the scoring normalizer of lib/scoringUtils.ts.              *)
(*                                                                         *)
(* Nullable values (T | null | undefined) are written as sequences of      *)
(* length at most one: Null is <<>> and Some(v) is <<v>>.  Strings are     *)
(* TLA+ strings; SubSeq, Len and \o read and build them.  Numbers of the   *)
(* scoring map are integers (hundredths of a point).                       *)
(***************************************************************************)
EXTENDS Integers, Sequences, FiniteSets, TLC

\* ------------------------------------------------------------------ bounds
\* How many requests may be in flight at once.
MaxInFlight == 2

\* How many requests the continuation of an answer delivered in issue order
\* may leave in flight.
MaxInOrder == 3

\* How many keys a raw scoring map handed to the normalizer may have.
MaxKeys == 2

\* How many rules a registration list other than the declared one may have.
MaxRules == 3

\* --------------------------------------------------------- nullable values
Null == <<>>

Some(v) == <<v>>

\* JavaScript truthiness of a nullable string: null, undefined and '' are falsy.
Truthy(s) == s # Null /\ s[1] # ""

\* a || b on a nullable string a and a string b.
OrElse(a, b) == IF Truthy(a) THEN a[1] ELSE b

\* ------------------------------------------------------------ string tools
CharAt(s, i) == SubSeq(s, i, i)

\* The 1-based position of the one-character string c in s, 0 when absent.
IndexOf(c, s) ==
  LET hits == {i \in 1..Len(s) : CharAt(s, i) = c}
  IN  IF hits = {} THEN 0 ELSE CHOOSE i \in hits : \A j \in hits : i <= j

StartsWith(s, prefix) ==
  Len(s) >= Len(prefix) /\ SubSeq(s, 1, Len(prefix)) = prefix

LowerLetters == "abcdefghijklmnopqrstuvwxyz"

UpperLetters == "ABCDEFGHIJKLMNOPQRSTUVWXYZ"

Digits == "0123456789"

\* String.prototype.toUpperCase on one character.
ToUpperChar(c) ==
  IF IndexOf(c, LowerLetters) > 0
  THEN CharAt(UpperLetters, IndexOf(c, LowerLetters))
  ELSE c

ToLowerChar(c) ==
  IF IndexOf(c, UpperLetters) > 0
  THEN CharAt(LowerLetters, IndexOf(c, UpperLetters))
  ELSE c

\* The regular expression class \w.
IsWordChar(c) ==
  IndexOf(c, LowerLetters) > 0 \/ IndexOf(c, UpperLetters) > 0
    \/ IndexOf(c, Digits) > 0 \/ c = "_"

IsWhitespace(c) == c = " "

RECURSIVE TrimStart(_)
TrimStart(s) ==
  IF Len(s) > 0 /\ IsWhitespace(CharAt(s, 1)) THEN TrimStart(Tail(s)) ELSE s

RECURSIVE TrimEnd(_)
TrimEnd(s) ==
  IF Len(s) > 0 /\ IsWhitespace(CharAt(s, Len(s)))
  THEN TrimEnd(SubSeq(s, 1, Len(s) - 1))
  ELSE s

\* String.prototype.trim.
Trim(s) == TrimEnd(TrimStart(s))

\* --------------------------------------------------- scoring rule catalog
\* The registration list, in its declared order.
ALL_SCORING_RULES ==
  <<
     [key |-> "pass_td", label |-> "Pass TD"],
     [key |-> "pass_yd", label |-> "Pass Yards"],
     [key |-> "rec", label |-> "PPR"],
     [key |-> "rush_td", label |-> "Rush TD"],
     [key |-> "rec_td", label |-> "Rec TD"],
     [key |-> "bonus_rec_te", label |-> "TEP"],
     [key |-> "sack", label |-> "Sack"],
     [key |-> "idp_tkl_ast", label |-> "IDP Assisted Tackles"],
     [key |-> "st_ff", label |-> "Special Teams Forced Fumbles"],
     [key |-> "idp_ff", label |-> "IDP Forced Fumbles"],
     [key |-> "pts_allow_7_13", label |-> "Points Allowed (7-13)"],
     [key |-> "pass_inc", label |-> "Incomplete Passes"],
     [key |-> "def_st_ff", label |-> "Defensive Special Teams Forced Fumbles"],
     [key |-> "fum_ret_yd", label |-> "Fumble Return Yards"],
     [key |-> "bonus_fd_rb", label |-> "Bonus RB First Downs"],
     [key |-> "bonus_fd_te", label |-> "Bonus TE First Downs"],
     [key |-> "rush_td_40p", label |-> "Rush TD 40+"],
     [key |-> "rec_yd", label |-> "Receiving Yards"],
     [key |-> "fum_rec_td", label |-> "Fumble Recovery TD"],
     [key |-> "bonus_rush_rec_yd_200", label |-> "Bonus 200+ Rush/Rec Yards"],
     [key |-> "pts_allow_35p", label |-> "Points Allowed (35+)"],
     [key |-> "pts_allow_28_34", label |-> "Points Allowed (28-34)"],
     [key |-> "fum", label |-> "Fumbles"],
     [key |-> "pr_yd", label |-> "Punt Return Yards"],
     [key |-> "rush_40p", label |-> "Rush 40+"],
     [key |-> "bonus_rec_rb", label |-> "Bonus RB Receptions"],
     [key |-> "yds_allow_0_100", label |-> "Yards Allowed (0-100)"],
     [key |-> "rush_yd", label |-> "Rushing Yards"],
     [key |-> "bonus_fd_qb", label |-> "Bonus QB First Downs"],
     [key |-> "idp_qb_hit", label |-> "IDP QB Hits"],
     [key |-> "bonus_def_int_td_50p", label |-> "Bonus 50+ Def Int TD"],
     [key |-> "yds_allow_100_199", label |-> "Yards Allowed (100-199)"],
     [key |-> "bonus_rush_att_20", label |-> "Bonus 20+ Rush Att"],
     [key |-> "tkl_solo", label |-> "Solo Tackles"],
     [key |-> "blk_kick", label |-> "Blocked Kicks"],
     [key |-> "rec_td_50p", label |-> "Rec TD 50+"],
     [key |-> "fgmiss_40_49", label |-> "Missed FG 40-49"],
     [key |-> "safe", label |-> "Safeties"],
     [key |-> "bonus_rush_yd_200", label |-> "Bonus 200+ Rush Yards"],
     [key |-> "rec_td_40p", label |-> "Rec TD 40+"],
     [key |-> "pass_fd", label |-> "Passing First Downs"],
     [key |-> "idp_fum_rec", label |-> "IDP Fumble Recoveries"],
     [key |-> "def_td", label |-> "Defensive TD"],
     [key |-> "bonus_tkl_10p", label |-> "Bonus 10+ Tackles"],
     [key |-> "fgm_50p", label |-> "FG Made 50+"],
     [key |-> "pass_cmp_40p", label |-> "Pass Comp 40+"],
     [key |-> "tkl", label |-> "Tackles"],
     [key |-> "def_st_td", label |-> "Def ST TD"],
     [key |-> "bonus_rec_yd_200", label |-> "Bonus 200+ Rec Yards"],
     [key |-> "rec_10_19", label |-> "Rec 10-19"],
     [key |-> "idp_pass_def", label |-> "IDP Pass Def"],
     [key |-> "fum_rec", label |-> "Fumble Recoveries"],
     [key |-> "yds_allow_300_349", label |-> "Yards Allowed (300-349)"],
     [key |-> "def_pass_def", label |-> "Def Pass Def"],
     [key |-> "rush_2pt", label |-> "Rush 2PT"],
     [key |-> "tkl_loss", label |-> "Tackles for Loss"],
     [key |-> "pass_cmp", label |-> "Pass Completions"],
     [key |-> "fgmiss_0_19", label |-> "Missed FG 0-19"],
     [key |-> "def_3_and_out", label |-> "Def 3 and Out"],
     [key |-> "rec_40p", label |-> "Rec 40+"],
     [key |-> "pass_sack", label |-> "Pass Sacks"],
     [key |-> "pass_td_50p", label |-> "Pass TD 50+"],
     [key |-> "xpm", label |-> "XP Made"],
     [key |-> "bonus_pass_yd_300", label |-> "Bonus 300+ Pass Yards"],
     [key |-> "bonus_rec_wr", label |-> "Bonus WR Rec"],
     [key |-> "pts_allow_21_27", label |-> "Points Allowed (21-27)"],
     [key |-> "yds_allow_500_549", label |-> "Yards Allowed (500-549)"],
     [key |-> "fgm_20_29", label |-> "FG Made 20-29"],
     [key |-> "idp_sack", label |-> "IDP Sacks"],
     [key |-> "rec_5_9", label |-> "Rec 5-9"],
     [key |-> "yds_allow", label |-> "Yards Allowed"],
     [key |-> "st_tkl_solo", label |-> "ST Solo Tackles"],
     [key |-> "rush_att", label |-> "Rush Attempts"],
     [key |-> "fgmiss_20_29", label |-> "Missed FG 20-29"],
     [key |-> "kr_yd", label |-> "Kick Return Yards"],
     [key |-> "rec_fd", label |-> "Receiving First Downs"],
     [key |-> "pts_allow_1_6", label |-> "Points Allowed (1-6)"],
     [key |-> "fum_lost", label |-> "Fumbles Lost"],
     [key |-> "def_st_fum_rec", label |-> "Def ST Fum Rec"],
     [key |-> "int", label |-> " Def Interceptions"],
     [key |-> "idp_pass_def_3p", label |-> "IDP Pass Def 3+"],
     [key |-> "idp_def_td", label |-> "IDP Def TD"],
     [key |-> "fgm_0_19", label |-> "FG Made 0-19"],
     [key |-> "def_2pt", label |-> "Def 2PT"],
     [key |-> "pts_allow_14_20", label |-> "Points Allowed (14-20)"],
     [key |-> "idp_safe", label |-> "IDP Safety"],
     [key |-> "idp_int_ret_yd", label |-> "IDP Int Ret Yards"],
     [key |-> "yds_allow_200_299", label |-> "Yards Allowed (200-299)"],
     [key |-> "fgmiss_30_39", label |-> "Missed FG 30-39"],
     [key |-> "bonus_sack_2p", label |-> "Bonus 2+ Sacks"],
     [key |-> "idp_int", label |-> "IDP Interceptions"],
     [key |-> "ff", label |-> "Forced Fumbles"],
     [key |-> "bonus_def_fum_td_50p", label |-> "Bonus 50+ Def Fum TD"],
     [key |-> "fgmiss", label |-> "Missed FG"],
     [key |-> "st_fum_rec", label |-> "ST Fum Rec"],
     [key |-> "pass_att", label |-> "Pass Attempts"],
     [key |-> "idp_tkl_solo", label |-> "IDP Solo Tackles"],
     [key |-> "int_ret_yd", label |-> "Int Ret Yards"],
     [key |-> "pass_int_td", label |-> "Pass Int TD"],
     [key |-> "rush_fd", label |-> "Rush First Downs"],
     [key |-> "idp_tkl_loss", label |-> "IDP Tkl Loss"],
     [key |-> "bonus_pass_cmp_25", label |-> "Bonus 25+ Pass Comp"],
     [key |-> "rec_2pt", label |-> "Rec 2PT"],
     [key |-> "bonus_rush_rec_yd_100", label |-> "Bonus 100+ Rush/Rec Yards"],
     [key |-> "idp_sack_yd", label |-> "IDP Sack Yards"],
     [key |-> "fgm", label |-> "Field Goals Made"],
     [key |-> "yds_allow_350_399", label |-> "Yards Allowed (350-399)"],
     [key |-> "def_st_tkl_solo", label |-> "Def ST Solo Tackles"],
     [key |-> "pass_td_40p", label |-> "Pass TD 40+"],
     [key |-> "yds_allow_550p", label |-> "Yards Allowed (550+)"],
     [key |-> "idp_tkl", label |-> "IDP Tackles"],
     [key |-> "fg_ret_yd", label |-> "FG Ret Yards"],
     [key |-> "def_4_and_stop", label |-> "Def 4th Down Stops"],
     [key |-> "pts_allow", label |-> "Points Allowed"],
     [key |-> "bonus_fd_wr", label |-> "Bonus WR First Downs"],
     [key |-> "def_kr_yd", label |-> "Def KR Yards"],
     [key |-> "rush_td_50p", label |-> "Rush TD 50+"],
     [key |-> "xpmiss", label |-> "Missed XP"],
     [key |-> "idp_fum_ret_yd", label |-> "IDP Fum Ret Yards"],
     [key |-> "fgm_30_39", label |-> "FG Made 30-39"],
     [key |-> "idp_blk_kick", label |-> "IDP Blocked Kicks"],
     [key |-> "rec_20_29", label |-> "Rec 20-29"],
     [key |-> "tkl_ast", label |-> "Assisted Tackles"],
     [key |-> "yds_allow_400_449", label |-> "Yards Allowed (400-449)"],
     [key |-> "fgm_yds_over_30", label |-> "FG Yards Over 30"],
     [key |-> "sack_yd", label |-> "Sack Yards"],
     [key |-> "rec_30_39", label |-> "Rec 30-39"],
     [key |-> "def_pr_yd", label |-> "Def PR Yards"],
     [key |-> "st_td", label |-> "ST TD"],
     [key |-> "blk_kick_ret_yd", label |-> "Blocked Kick Ret Yards"],
     [key |-> "yds_allow_450_499", label |-> "Yards Allowed (450-499)"],
     [key |-> "rec_0_4", label |-> "Rec 0-4"],
     [key |-> "pass_2pt", label |-> "Pass 2PT"],
     [key |-> "bonus_pass_yd_400", label |-> "Bonus 400+ Pass Yards"],
     [key |-> "pts_allow_0", label |-> "Points Allowed (0)"],
     [key |-> "fgmiss_50p", label |-> "Missed FG 50+"],
     [key |-> "def_forced_punts", label |-> "Def Forced Punts"],
     [key |-> "fgm_yds", label |-> "FG Yards"],
     [key |-> "fgm_40_49", label |-> "FG Made 40-49"],
     [key |-> "qb_hit", label |-> "QB Hits"]
  >>

\* A variant of the callback that lets a later rule of a seen key replace
\* the kept one.
UniqueStepPreferringLast(rule, acc) ==
  IF rule.key \in acc.seenKeys
  THEN [kept |-> [n \in 1..Len(acc.kept) |->
                    IF acc.kept[n].key = rule.key THEN rule ELSE acc.kept[n]],
        seenKeys |-> acc.seenKeys]
  ELSE [kept |-> Append(acc.kept, rule),
        seenKeys |-> acc.seenKeys \cup {rule.key}]

\* The callback of the filter for one rule; acc is [kept, seenKeys].
UniqueStep(rule, acc) ==
  IF rule.key \in acc.seenKeys THEN acc
  ELSE [kept |-> Append(acc.kept, rule),
        seenKeys |-> acc.seenKeys \cup {rule.key}]

\* Array.prototype.filter with the seenKeys set over the rules lo..hi, from
\* acc: the first rule of each key is kept.  The range is walked by halves,
\* which keeps the order of the steps; the test on left makes TLC evaluate
\* the left half before it walks the right.
RECURSIVE FilterUnseen(_, _, _, _)
FilterUnseen(rules, lo, hi, acc) ==
  IF lo > hi THEN acc
  ELSE IF lo = hi THEN UniqueStep(rules[lo], acc)
  ELSE LET mid == (lo + hi) \div 2
           left == FilterUnseen(rules, lo, mid, acc)
       IN  IF Len(left.kept) >= 0
           THEN FilterUnseen(rules, mid + 1, hi, left)
           ELSE acc

uniqueScoringRules(rules) ==
  FilterUnseen(rules, 1, Len(rules), [kept |-> <<>>, seenKeys |-> {}]).kept

UNIQUE_SCORING_RULES == uniqueScoringRules(ALL_SCORING_RULES)

\* A variant of the list without its first key.
DisplayKeysWithoutRec == <<"pass_td", "bonus_rec_te", "pass_sack">>

EXPLICIT_DISPLAY_KEYS == <<"rec", "pass_td", "bonus_rec_te", "pass_sack">>

BonusPrefix == "bonus_"

\* ------------------------------------------------------ scoring normalizer
\* A raw scoring map is a sequence of entries [key, value] with distinct keys,
\* in the order for..in enumerates them.  A value is a JSON value: a number,
\* null or a string.
JsNumber(n) == [type |-> "number", num |-> n]

JsNull == [type |-> "null", num |-> 0]

JsString == [type |-> "string", num |-> 0]

Includes(seq, x) == \E i \in 1..Len(seq) : seq[i] = x

HasOwnProperty(settings, k) == \E i \in 1..Len(settings) : settings[i].key = k

Lookup(settings, k) ==
  settings[CHOOSE i \in 1..Len(settings) : settings[i].key = k].value

\* A variant of the test that lets zero pass.
IsNumber(value) == value.type = "number"

\* typeof value === 'number' && value !== 0
IsNonzeroNumber(value) == value.type = "number" /\ value.num # 0

\* UNIQUE_SCORING_RULES.find(r => r.key === apiKey), as the index of the rule.
FindRule(catalog, apiKey) ==
  LET hits == {i \in 1..Len(catalog) : catalog[i].key = apiKey}
  IN  IF hits = {} THEN 0 ELSE CHOOSE i \in hits : \A j \in hits : i <= j

\* s.replace(/_/g, ' ')
RECURSIVE ReplaceUnderscores(_)
ReplaceUnderscores(s) ==
  IF s = "" THEN ""
  ELSE (IF CharAt(s, 1) = "_" THEN " " ELSE CharAt(s, 1))
         \o ReplaceUnderscores(Tail(s))

\* s.replace(/\b\w/g, l => l.toUpperCase()): a word character that starts the
\* string or follows a non-word character is upper-cased.
RECURSIVE CapitalizeWords(_, _)
CapitalizeWords(s, i) ==
  IF i > Len(s) THEN ""
  ELSE LET c == CharAt(s, i)
           atBoundary == IsWordChar(c) /\ (i = 1 \/ ~IsWordChar(CharAt(s, i - 1)))
       IN  (IF atBoundary THEN ToUpperChar(c) ELSE c) \o CapitalizeWords(s, i + 1)

\* A variant of the fallback label that only replaces the underscores.
HumanizeWithoutCapitals(apiKey) == ReplaceUnderscores(apiKey)

Humanize(apiKey) == CapitalizeWords(ReplaceUnderscores(apiKey), 1)

\* The collation order of String.prototype.localeCompare on the characters of
\* keys and labels: space, punctuation, digits, letters; case counts only
\* between strings that are otherwise equal, lower case first.
CollationOrder == " _-()/+0123456789abcdefghijklmnopqrstuvwxyz"

PrimaryWeight(c) == IndexOf(ToLowerChar(c), CollationOrder)

RECURSIVE ComparePrimary(_, _)
ComparePrimary(a, b) ==
  IF a = "" /\ b = "" THEN 0
  ELSE IF a = "" THEN -1
  ELSE IF b = "" THEN 1
  ELSE LET wa == PrimaryWeight(CharAt(a, 1))
           wb == PrimaryWeight(CharAt(b, 1))
       IN  IF wa < wb THEN -1
           ELSE IF wa > wb THEN 1
           ELSE ComparePrimary(Tail(a), Tail(b))

RECURSIVE CompareCase(_, _)
CompareCase(a, b) ==
  IF a = "" \/ b = "" THEN 0
  ELSE IF CharAt(a, 1) = CharAt(b, 1) THEN CompareCase(Tail(a), Tail(b))
  ELSE IF IndexOf(CharAt(a, 1), LowerLetters) > 0 THEN -1 ELSE 1

localeCompare(a, b) ==
  IF ComparePrimary(a, b) # 0 THEN ComparePrimary(a, b) ELSE CompareCase(a, b)

\* Array.prototype.sort with (a, b) => a.label.localeCompare(b.label): stable.
InsertByLabel(x, sorted) ==
  LET later == {i \in 1..Len(sorted) : localeCompare(sorted[i].label, x.label) > 0}
      at == IF later = {} THEN Len(sorted) + 1
            ELSE CHOOSE i \in later : \A j \in later : i <= j
  IN  SubSeq(sorted, 1, at - 1) \o <<x>> \o SubSeq(sorted, at, Len(sorted))

\* A variant that leaves the list in the order of the pushes.
InPushOrder(list) == list

RECURSIVE SortByLabel(_)
SortByLabel(list) ==
  IF list = <<>> THEN <<>>
  ELSE InsertByLabel(list[Len(list)], SortByLabel(SubSeq(list, 1, Len(list) - 1)))

\* A variant of the body of pass 1 that does not record the key it pushes.
CatalogStepNotMarking(rule, apiSettings, acc) ==
  LET settingKey == rule.key
  IN  IF /\ HasOwnProperty(apiSettings, settingKey)
         /\ settingKey \notin acc.processedKeys
         /\ IsNonzeroNumber(Lookup(apiSettings, settingKey))
         /\ \/ Includes(EXPLICIT_DISPLAY_KEYS, settingKey)
            \/ StartsWith(settingKey, BonusPrefix)
      THEN [display |-> Append(acc.display,
                          [label |-> rule.label,
                           value |-> Lookup(apiSettings, settingKey).num]),
            processedKeys |-> acc.processedKeys]
      ELSE acc

\* A variant of the body of pass 1 without the test on isExplicit and isBonus.
CatalogStepUngated(rule, apiSettings, acc) ==
  LET settingKey == rule.key
  IN  IF /\ HasOwnProperty(apiSettings, settingKey)
         /\ settingKey \notin acc.processedKeys
         /\ IsNonzeroNumber(Lookup(apiSettings, settingKey))
      THEN [display |-> Append(acc.display,
                          [label |-> rule.label,
                           value |-> Lookup(apiSettings, settingKey).num]),
            processedKeys |-> acc.processedKeys \cup {settingKey}]
      ELSE acc

\* A variant of the body of pass 1 that handles the allow-listed keys only
\* and leaves the catalog's bonus keys to pass 2.
CatalogStepExplicitOnly(rule, apiSettings, acc) ==
  LET settingKey == rule.key
  IN  IF /\ HasOwnProperty(apiSettings, settingKey)
         /\ settingKey \notin acc.processedKeys
         /\ IsNonzeroNumber(Lookup(apiSettings, settingKey))
         /\ Includes(EXPLICIT_DISPLAY_KEYS, settingKey)
      THEN [display |-> Append(acc.display,
                          [label |-> rule.label,
                           value |-> Lookup(apiSettings, settingKey).num]),
            processedKeys |-> acc.processedKeys \cup {settingKey}]
      ELSE acc

\* The body of pass 1 for one rule; acc is [display, processedKeys].
CatalogStep(rule, apiSettings, acc) ==
  LET settingKey == rule.key
  IN  IF /\ HasOwnProperty(apiSettings, settingKey)
         /\ settingKey \notin acc.processedKeys
         /\ IsNonzeroNumber(Lookup(apiSettings, settingKey))
         /\ \/ Includes(EXPLICIT_DISPLAY_KEYS, settingKey)
            \/ StartsWith(settingKey, BonusPrefix)
      THEN [display |-> Append(acc.display,
                          [label |-> rule.label,
                           value |-> Lookup(apiSettings, settingKey).num]),
            processedKeys |-> acc.processedKeys \cup {settingKey}]
      ELSE acc

\* Pass 1: forEach over the rules lo..hi of the catalog in order, from acc.
\* The range is walked by halves, which keeps the order of the steps; the
\* test on left makes TLC evaluate the left half before it walks the right.
RECURSIVE CatalogPass(_, _, _, _, _)
CatalogPass(catalog, apiSettings, lo, hi, acc) ==
  IF lo > hi THEN acc
  ELSE IF lo = hi THEN CatalogStep(catalog[lo], apiSettings, acc)
  ELSE LET mid == (lo + hi) \div 2
           left == CatalogPass(catalog, apiSettings, lo, mid, acc)
       IN  IF Len(left.display) >= 0
           THEN CatalogPass(catalog, apiSettings, mid + 1, hi, left)
           ELSE acc

\* Pass 2: the raw map's own keys in order; processedKeys is not extended.
RECURSIVE FallbackPass(_, _, _, _)
FallbackPass(catalog, apiSettings, i, acc) ==
  IF i > Len(apiSettings) THEN acc
  ELSE LET apiKey == apiSettings[i].key
           value == apiSettings[i].value
           selected ==
             /\ apiKey \notin acc.processedKeys
             /\ StartsWith(apiKey, BonusPrefix)
             /\ IsNonzeroNumber(value)
           knownRule == FindRule(catalog, apiKey)
       IN  FallbackPass(catalog, apiSettings, i + 1,
             IF selected
             THEN [display |-> Append(acc.display,
                                 [label |-> IF knownRule # 0
                                            THEN catalog[knownRule].label
                                            ELSE Humanize(apiKey),
                                  value |-> value.num]),
                   processedKeys |-> acc.processedKeys]
             ELSE acc)

\* A variant of the normalizer without the fallback pass.
DisplayableSettingsWithoutFallback(catalog, apiSettings) ==
  IF apiSettings = Null THEN <<>>
  ELSE SortByLabel(CatalogPass(catalog, apiSettings[1], 1, Len(catalog),
                     [display |-> <<>>, processedKeys |-> {}]).display)

\* The normalizer over a given catalog; apiSettings is nullable.
DisplayableSettings(catalog, apiSettings) ==
  IF apiSettings = Null THEN <<>>
  ELSE LET first == CatalogPass(catalog, apiSettings[1], 1, Len(catalog),
                      [display |-> <<>>, processedKeys |-> {}])
           second == FallbackPass(catalog, apiSettings[1], 1, first)
       IN  SortByLabel(second.display)


\* ------------------------------------------------------ program constants
MY_SLEEPER_ID_OR_USERNAME == "beastly"

CURRENT_YEAR == 2025

SELECTABLE_YEARS ==
  <<CURRENT_YEAR + 1, CURRENT_YEAR, CURRENT_YEAR - 1, CURRENT_YEAR - 2,
    CURRENT_YEAR - 3, CURRENT_YEAR - 4, CURRENT_YEAR - 5>>

\* The seasons the user picks among in the selector: the first two entries
\* of the list, the default season and the one listed before it.
Years ==
  {SELECTABLE_YEARS[1], SELECTABLE_YEARS[2]}

\* What the user types into the identifier input.
Inputs == {"", " rival "}

ConfiguredBaseUrl == "http://127.0.0.1:8000/api/v1"

\* ------------------------------------------------------------- the backend
\* What the backend service answers when it finds the identifier.  Two
\* identifiers name a user; any other is answered with an error field.
BackendResolve(identifier) ==
  IF identifier = "beastly"
  THEN [user_id |-> "1001", display_name |-> "Beastly", error |-> Null]
  ELSE IF identifier = "rival"
  THEN [user_id |-> "1002", display_name |-> "Rival", error |-> Null]
  ELSE [user_id |-> "", display_name |-> "", error |-> Some("Sleeper user not found")]

BackendUserIds == {"1001", "1002"}

League(userId, year, tag) ==
  [league_id |-> userId \o "-" \o ToString(year) \o "-" \o tag,
   name |-> "League " \o tag,
   season |-> ToString(year)]

\* User 1001 has two leagues in the current season and one in every other;
\* user 1002 has one league in the current season and none in any other.
BackendLeagues(userId, year) ==
  IF userId = "1001"
  THEN IF year = CURRENT_YEAR
       THEN <<League(userId, year, "a"), League(userId, year, "b")>>
       ELSE <<League(userId, year, "a")>>
  ELSE IF userId = "1002" /\ year = CURRENT_YEAR
  THEN <<League(userId, year, "b")>>
  ELSE <<>>

SeqRange(seq) == {seq[i] : i \in 1..Len(seq)}

AllBackendLeagues ==
  UNION {SeqRange(BackendLeagues(u, y)) : u \in BackendUserIds, y \in Years}

\* The scoring map of the "a" leagues; the "b" leagues carry none.
SampleScoring ==
  <<[key |-> "rec", value |-> JsNumber(100)],
    [key |-> "pass_yd", value |-> JsNumber(4)],
    [key |-> "pass_td", value |-> JsNumber(400)],
    [key |-> "bonus_unknown_thing", value |-> JsNumber(200)],
    [key |-> "bonus_rec_te", value |-> JsNumber(50)],
    [key |-> "rush_td", value |-> JsNull],
    [key |-> "bonus_fd_rb", value |-> JsNumber(0)]>>

\* The normalizer's output for the scoring map the backend holds, computed
\* once: a value of DisplayableSettings, not another definition of it.
SampleDisplayable ==
  DisplayableSettings(UNIQUE_SCORING_RULES, Some(SampleScoring))

getDisplayableScoringSettings(apiSettings) ==
  IF apiSettings = Some(SampleScoring)
  THEN SampleDisplayable
  ELSE DisplayableSettings(UNIQUE_SCORING_RULES, apiSettings)

BackendDetails(leagueId) ==
  LET l == CHOOSE l \in AllBackendLeagues : l.league_id = leagueId
  IN  [league_id |-> l.league_id, name |-> l.name, season |-> l.season,
       status |-> "in_season", total_rosters |-> 12,
       scoring_settings |->
         IF l.name = "League a" THEN Some(SampleScoring) ELSE Null]

\* ------------------------------------------------------- HTTP responses
\* A response is a transport failure (fetch rejects) or an HTTP answer with a
\* status and a body; json is Null when the body does not parse as JSON.
TransportFailure == [transport |-> TRUE, status |-> 0, json |-> Null]

Http(status, json) == [transport |-> FALSE, status |-> status, json |-> json]

\* response.ok
ResponseOk(r) == r.status >= 200 /\ r.status <= 299

\* The message of the error fetch rejects with.
TransportMessage == "Failed to fetch"

\* The message of the error response.json() rejects with.
JsonParseMessage == "Unexpected end of JSON input"

\* The answers that are failures for every client call: no answer at all, a
\* non-2xx status with a detail, a non-2xx status without a JSON body, and a
\* 2xx status whose body does not parse.
FailureResponses ==
  {TransportFailure,
   Http(404, Some([detail |-> Some("Not found upstream")])),
   Http(502, Null),
   Http(200, Null)}

\* Whether the response is a successful answer with a readable body.
Succeeded(r) == ~r.transport /\ ResponseOk(r) /\ r.json # Null

\* ------------------------------------------------------ lib/api/sleeper.ts
\* `HTTP error! status: ${response.status}`
StatusMessage(status) == "HTTP error! status: " \o ToString(status)

\* A variant of ErrorDetail that never reads the body's detail.
ErrorDetailStatusOnly(r, fallback) == StatusMessage(r.status)

\* errorData?.detail || `HTTP error! status: ${response.status}`, where
\* errorData is the parsed body or the fallback of the .catch.
ErrorDetail(r, fallback) ==
  LET errorData == IF r.json # Null THEN r.json ELSE fallback
  IN  OrElse(IF errorData = Null THEN Null ELSE errorData[1].detail,
             StatusMessage(r.status))

\* The message of the error caught by a client call's try block.
CaughtMessage(r, fallback) ==
  IF r.transport THEN TransportMessage
  ELSE IF ~ResponseOk(r) THEN ErrorDetail(r, fallback)
  ELSE JsonParseMessage

ErrorResult(message) ==
  [user_id |-> "", display_name |-> "", error |-> Some(message)]

\* resolveSleeperInput when the base URL is not configured: no request.
resolveSleeperInputUnconfigured ==
  ErrorResult(OrElse(Some("API base URL is not configured."),
                     "Unknown error during input resolution"))

\* resolveSleeperInput once the response r has arrived.
resolveSleeperInput(r) ==
  IF Succeeded(r) THEN r.json[1]
  ELSE ErrorResult(OrElse(Some(CaughtMessage(r, Null)),
                          "Unknown error during input resolution"))

\* A variant of resolveSleeperInputSettled without the catch of the try
\* block: a failure rejects the promise with the error thrown.
resolveSleeperInputSettledUncaught(r) ==
  IF Succeeded(r)
  THEN [outcome |-> "returns", value |-> r.json[1], message |-> Null]
  ELSE [outcome |-> "throws", value |-> ErrorResult(""),
        message |-> Some(CaughtMessage(r, Null))]

\* How the promise of resolveSleeperInput settles once the response r has
\* arrived: the whole body is inside the try block and its catch returns, so
\* the promise is fulfilled with the value returned.
resolveSleeperInputSettled(r) ==
  [outcome |-> "returns", value |-> resolveSleeperInput(r), message |-> Null]

\* fetchSleeperLeaguesForYear once the response r has arrived.
fetchSleeperLeaguesForYear(r) ==
  IF Succeeded(r) THEN r.json[1] ELSE <<>>

\* fetchSleeperLeagueDetails once the response r has arrived.
fetchSleeperLeagueDetails(r) ==
  IF Succeeded(r) THEN r.json ELSE Null

\* ------------------------------------------------------------ requests
\* A request in flight, with what the code awaiting it holds: for "resolve"
\* the identifier and the leagueYear processSleeperData closed over, for
\* "leagues" the user id and the year, for "details" the league id.
\* overtaken records that a request of the same kind issued after this one
\* has already been answered.
ResolveRequest(identifier, year) ==
  [kind |-> "resolve", arg |-> identifier, year |-> year, overtaken |-> FALSE]

LeaguesRequest(userId, year) ==
  [kind |-> "leagues", arg |-> userId, year |-> year, overtaken |-> FALSE]

DetailsRequest(leagueId) ==
  [kind |-> "details", arg |-> leagueId, year |-> 0, overtaken |-> FALSE]

NoRequest == [kind |-> "none", arg |-> "", year |-> 0, overtaken |-> FALSE]

\* A variant of fetchSleeperLeagueDetailsCalled without the test of leagueId.
fetchSleeperLeagueDetailsCalledUnchecked(baseUrl, leagueId) ==
  IF baseUrl = Null
  THEN [outcome |-> "throws",
        message |-> Some("API base URL is not configured."),
        request |-> Null]
  ELSE [outcome |-> "awaits", message |-> Null,
        request |-> Some(DetailsRequest(leagueId))]

\* fetchSleeperLeagueDetails up to its fetch: it throws when the base URL is
\* not configured, returns null for an empty leagueId, and otherwise issues
\* the request it then awaits.
fetchSleeperLeagueDetailsCalled(baseUrl, leagueId) ==
  IF baseUrl = Null
  THEN [outcome |-> "throws",
        message |-> Some("API base URL is not configured."),
        request |-> Null]
  ELSE IF leagueId = ""
  THEN [outcome |-> "returns", message |-> Null, request |-> Null]
  ELSE [outcome |-> "awaits", message |-> Null,
        request |-> Some(DetailsRequest(leagueId))]

\* The answers the request req may get.  The two fetch calls treat every
\* failure alike, so they are given the transport failure and one non-2xx
\* answer; the resolution call is given every failure and an error field.
Responses(req) ==
  IF req.kind = "resolve" THEN
    FailureResponses \cup
      {Http(200, Some(BackendResolve(req.arg))),
       Http(200, Some(ErrorResult("Sleeper user not found")))}
  ELSE IF req.kind = "leagues" THEN
    {TransportFailure, Http(404, Some([detail |-> Some("Not found upstream")])),
     Http(200, Some(BackendLeagues(req.arg, req.year)))}
  ELSE
    {TransportFailure, Http(404, Some([detail |-> Some("Not found upstream")]))}
      \cup (IF \E l \in AllBackendLeagues : l.league_id = req.arg
            THEN {Http(200, Some(BackendDetails(req.arg)))}
            ELSE {})

RemoveAt(seq, i) == SubSeq(seq, 1, i - 1) \o SubSeq(seq, i + 1, Len(seq))

\* The requests left in flight once the i-th has been answered: nothing is
\* cancelled, and the earlier requests of its kind are now overtaken.
AfterArrival(inFlight, i) ==
  RemoveAt([j \in 1..Len(inFlight) |->
              IF j < i /\ inFlight[j].kind = inFlight[i].kind
              THEN [inFlight[j] EXCEPT !.overtaken = TRUE]
              ELSE inFlight[j]], i)

\* ------------------------------------------------------------------- state
VARIABLES
  inputValue, resolvedUser, displayName, leagues, selectedLeagueId,
  selectedLeagueDetails, leagueYear, isLoading, isLoadingDetails, error,
  leagueDetailsError, displayableScoring,
  API_BASE_URL,   \* Null when NEXT_PUBLIC_API_BASE_URL is not set
  pending,        \* the requests in flight, in the order they were issued
  lastEvent       \* the trigger or arrival that produced the state

vars ==
  <<inputValue, resolvedUser, displayName, leagues, selectedLeagueId,
    selectedLeagueDetails, leagueYear, isLoading, isLoadingDetails, error,
    leagueDetailsError, displayableScoring, API_BASE_URL, pending, lastEvent>>

\* The component's state and the requests in flight as one value: the
\* handlers below map such a value to the one their writes leave.
Session ==
  [inputValue |-> inputValue, resolvedUser |-> resolvedUser,
   displayName |-> displayName, leagues |-> leagues,
   selectedLeagueId |-> selectedLeagueId,
   selectedLeagueDetails |-> selectedLeagueDetails, leagueYear |-> leagueYear,
   isLoading |-> isLoading, isLoadingDetails |-> isLoadingDetails,
   error |-> error, leagueDetailsError |-> leagueDetailsError,
   displayableScoring |-> displayableScoring, pending |-> pending]

InitialSession ==
  [inputValue |-> "", resolvedUser |-> Null, displayName |-> Null,
   leagues |-> <<>>, selectedLeagueId |-> "", selectedLeagueDetails |-> Null,
   leagueYear |-> CURRENT_YEAR, isLoading |-> FALSE,
   isLoadingDetails |-> FALSE, error |-> Null, leagueDetailsError |-> Null,
   displayableScoring |-> <<>>, pending |-> <<>>]

\* ------------------------------------------------------ SleeperLookupForm
handleApiResponseError(s, errorMessage, defaultMessage, isDetailError) ==
  IF isDetailError
  THEN [s EXCEPT !.leagueDetailsError = Some(OrElse(errorMessage, defaultMessage))]
  ELSE [s EXCEPT !.error = Some(OrElse(errorMessage, defaultMessage))]

\* A variant of clearPreviousData that keeps the league list.
clearPreviousDataKeepingLeagues(s, clearInput) ==
  [s EXCEPT !.error = Null,
            !.leagueDetailsError = Null,
            !.displayName = Null,
            !.resolvedUser = Null,
            !.selectedLeagueId = "",
            !.selectedLeagueDetails = Null,
            !.displayableScoring = <<>>,
            !.inputValue = IF clearInput THEN "" ELSE @]

clearPreviousData(s, clearInput) ==
  [s EXCEPT !.error = Null,
            !.leagueDetailsError = Null,
            !.leagues = <<>>,
            !.displayName = Null,
            !.resolvedUser = Null,
            !.selectedLeagueId = "",
            !.selectedLeagueDetails = Null,
            !.displayableScoring = <<>>,
            !.inputValue = IF clearInput THEN "" ELSE @]

\* fetchAndSetLeagues up to its await: the four resets, then the request.
\* Without a base URL the client call throws at once and the catch runs.
fetchAndSetLeagues(s, userId, yearToFetch) ==
  LET cleared == [s EXCEPT !.leagues = <<>>,
                           !.selectedLeagueId = "",
                           !.selectedLeagueDetails = Null,
                           !.displayableScoring = <<>>]
  IN  IF API_BASE_URL = Null
      THEN [handleApiResponseError(cleared,
              Some("API base URL is not configured."),
              "Failed to fetch leagues.", FALSE)
            EXCEPT !.isLoading = FALSE]
      ELSE [cleared EXCEPT
              !.pending = Append(@, LeaguesRequest(userId, yearToFetch))]

\* A variant of fetchAndSetLeaguesResumed that drops the answer to a request
\* whose user or season is no longer the one held.
fetchAndSetLeaguesResumedIfCurrent(s, req, r) ==
  IF /\ s.resolvedUser # Null
     /\ s.resolvedUser[1].user_id = req.arg
     /\ s.leagueYear = req.year
  THEN [s EXCEPT !.leagues = fetchSleeperLeaguesForYear(r),
                 !.isLoading = FALSE]
  ELSE [s EXCEPT !.isLoading = FALSE]

\* A variant of fetchAndSetLeaguesResumed that gives up the resolved user
\* when the enumeration fails.
fetchAndSetLeaguesResumedAborting(s, req, r) ==
  IF Succeeded(r)
  THEN [s EXCEPT !.leagues = fetchSleeperLeaguesForYear(r),
                 !.isLoading = FALSE]
  ELSE [s EXCEPT !.leagues = <<>>,
                 !.resolvedUser = Null,
                 !.displayName = Null,
                 !.isLoading = FALSE]

\* A variant of fetchAndSetLeaguesResumed that asks again when the request
\* failed.
fetchAndSetLeaguesResumedRetrying(s, req, r) ==
  IF Succeeded(r)
  THEN [s EXCEPT !.leagues = fetchSleeperLeaguesForYear(r),
                 !.isLoading = FALSE]
  ELSE [s EXCEPT !.pending = Append(@, LeaguesRequest(req.arg, req.year))]

\* fetchAndSetLeagues after its await, with the setIsLoading(false) of the
\* finally that follows it in either caller.  req is the request it awaited
\* (the userId and yearToFetch of the call); the answer r is written whatever
\* the user and season held by now.
fetchAndSetLeaguesResumed(s, req, r) ==
  [s EXCEPT !.leagues = fetchSleeperLeaguesForYear(r),
            !.isLoading = FALSE]

\* processSleeperData up to its await.
processSleeperData(s, identifier) ==
  LET started == clearPreviousData([s EXCEPT !.isLoading = TRUE], FALSE)
  IN  IF API_BASE_URL = Null
      THEN [handleApiResponseError(started,
              resolveSleeperInputUnconfigured.error,
              "Could not resolve Sleeper input.", FALSE)
            EXCEPT !.displayName = Null,
                   !.resolvedUser = Null,
                   !.isLoading = FALSE]
      ELSE [started EXCEPT
              !.pending = Append(@, ResolveRequest(identifier, s.leagueYear))]

\* A variant of processSleeperDataResumed that shows its own message for a
\* failed resolution, whatever message the answer carries.
processSleeperDataResumedGenericMessage(s, req, r) ==
  LET resolvedUserData == resolveSleeperInput(r)
  IN  IF resolvedUserData.user_id # "" /\ ~Truthy(resolvedUserData.error)
      THEN fetchAndSetLeagues(
             [s EXCEPT !.resolvedUser = Some(resolvedUserData),
                       !.displayName = Some(resolvedUserData.display_name)],
             resolvedUserData.user_id, req.year)
      ELSE [s EXCEPT !.error = Some("Could not resolve Sleeper input."),
                     !.displayName = Null,
                     !.resolvedUser = Null,
                     !.isLoading = FALSE]

\* processSleeperData after its await: req is the request it awaited, with
\* the leagueYear of the render it was called from.
processSleeperDataResumed(s, req, r) ==
  LET settled == resolveSleeperInputSettled(r)
      resolvedUserData == settled.value
  IN  IF settled.outcome = "throws"
      THEN [handleApiResponseError(s, settled.message,
              "An error occurred while resolving user.", FALSE)
            EXCEPT !.displayName = Null,
                   !.resolvedUser = Null,
                   !.isLoading = FALSE]
      ELSE IF resolvedUserData.user_id # "" /\ ~Truthy(resolvedUserData.error)
      THEN fetchAndSetLeagues(
             [s EXCEPT !.resolvedUser = Some(resolvedUserData),
                       !.displayName = Some(resolvedUserData.display_name)],
             resolvedUserData.user_id, req.year)
      ELSE [handleApiResponseError(s, resolvedUserData.error,
              "Could not resolve Sleeper input.", FALSE)
            EXCEPT !.displayName = Null,
                   !.resolvedUser = Null,
                   !.isLoading = FALSE]

\* A variant of handleSubmit without the test of the trimmed input.
handleSubmitUnvalidated(s) == processSleeperData(s, Trim(s.inputValue))

handleSubmit(s) ==
  IF Trim(s.inputValue) = ""
  THEN [s EXCEPT !.error = Some("Please enter a Sleeper Username or ID.")]
  ELSE processSleeperData(s, Trim(s.inputValue))

handleMyIdClick(s) ==
  processSleeperData([s EXCEPT !.inputValue = MY_SLEEPER_ID_OR_USERNAME],
                     MY_SLEEPER_ID_OR_USERNAME)

\* A variant of handleLeagueChange that also clears the general error.
handleLeagueChangeClearingError(s, leagueId) ==
  LET cleared == [s EXCEPT !.selectedLeagueId = leagueId,
                           !.error = Null,
                           !.leagueDetailsError = Null,
                           !.selectedLeagueDetails = Null,
                           !.displayableScoring = <<>>]
  IN  IF leagueId = "" THEN cleared
      ELSE [cleared EXCEPT !.isLoadingDetails = TRUE,
                           !.pending = Append(@, DetailsRequest(leagueId))]

\* A variant of handleLeagueChange without the test of leagueId.
handleLeagueChangeUnguarded(s, leagueId) ==
  [s EXCEPT !.selectedLeagueId = leagueId,
            !.leagueDetailsError = Null,
            !.selectedLeagueDetails = Null,
            !.displayableScoring = <<>>,
            !.isLoadingDetails = TRUE,
            !.pending = Append(@, DetailsRequest(leagueId))]

\* handleLeagueChange up to its await.
handleLeagueChange(s, leagueId) ==
  LET cleared == [s EXCEPT !.selectedLeagueId = leagueId,
                           !.leagueDetailsError = Null,
                           !.selectedLeagueDetails = Null,
                           !.displayableScoring = <<>>]
  IN  IF leagueId = "" THEN cleared
      ELSE IF API_BASE_URL = Null
      THEN [handleApiResponseError(cleared,
              Some("API base URL is not configured."),
              "An error occurred while fetching league details.", TRUE)
            EXCEPT !.isLoadingDetails = FALSE]
      ELSE [cleared EXCEPT !.isLoadingDetails = TRUE,
                           !.pending = Append(@, DetailsRequest(leagueId))]

\* A variant of handleLeagueChangeResumed that drops the league list and the
\* selection when the details could not be fetched.
handleLeagueChangeResumedRollingBack(s, r) ==
  LET details == fetchSleeperLeagueDetails(r)
  IN  IF details # Null
      THEN [s EXCEPT !.selectedLeagueDetails = details,
                     !.displayableScoring =
                       getDisplayableScoringSettings(details[1].scoring_settings),
                     !.isLoadingDetails = FALSE]
      ELSE [s EXCEPT !.leagueDetailsError =
                       Some("Could not fetch details for the selected league."),
                     !.leagues = <<>>,
                     !.selectedLeagueId = "",
                     !.isLoadingDetails = FALSE]

\* A variant of handleLeagueChangeResumed that does not run the normalizer.
handleLeagueChangeResumedWithoutScoring(s, r) ==
  LET details == fetchSleeperLeagueDetails(r)
      handled ==
        IF details # Null
        THEN [s EXCEPT !.selectedLeagueDetails = details]
        ELSE handleApiResponseError(s, Null,
               "Could not fetch details for the selected league.", TRUE)
  IN  [handled EXCEPT !.isLoadingDetails = FALSE]

\* A variant of handleLeagueChangeResumed that resets isLoadingDetails at the
\* end of the try block instead of in a finally: not when the fetch failed.
handleLeagueChangeResumedWithoutFinally(s, r) ==
  LET details == fetchSleeperLeagueDetails(r)
  IN  IF details # Null
      THEN [s EXCEPT !.selectedLeagueDetails = details,
                     !.displayableScoring =
                       getDisplayableScoringSettings(details[1].scoring_settings),
                     !.isLoadingDetails = FALSE]
      ELSE handleApiResponseError(s, Null,
             "Could not fetch details for the selected league.", TRUE)

\* handleLeagueChange after its await.
handleLeagueChangeResumed(s, r) ==
  LET details == fetchSleeperLeagueDetails(r)
      handled ==
        IF details # Null
        THEN [s EXCEPT !.selectedLeagueDetails = details,
                       !.displayableScoring =
                         getDisplayableScoringSettings(details[1].scoring_settings)]
        ELSE handleApiResponseError(s, Null,
               "Could not fetch details for the selected league.", TRUE)
  IN  [handled EXCEPT !.isLoadingDetails = FALSE]

\* A variant of the season selector's onValueChange that asks again for the
\* details of the league selected.
onYearChangeReloadingDetails(s, value) ==
  [s EXCEPT !.leagueYear = value,
            !.selectedLeagueDetails = Null,
            !.displayableScoring = <<>>,
            !.pending = IF s.selectedLeagueId = "" THEN @
                        ELSE Append(@, DetailsRequest(s.selectedLeagueId))]

\* A variant of the season selector's onValueChange that gives up the
\* resolved user.
onYearChangeDroppingUser(s, value) ==
  [s EXCEPT !.leagueYear = value,
            !.resolvedUser = Null,
            !.displayName = Null,
            !.selectedLeagueId = "",
            !.selectedLeagueDetails = Null,
            !.displayableScoring = <<>>]

\* The season selector's onValueChange.
onYearChange(s, value) ==
  [s EXCEPT !.leagueYear = value,
            !.selectedLeagueId = "",
            !.selectedLeagueDetails = Null,
            !.displayableScoring = <<>>]

\* resolvedUser?.user_id
UserIdOf(user) == IF user = Null THEN Null ELSE Some(user[1].user_id)

\* A variant of the effect that depends on resolvedUser?.user_id alone.
useEffectOnUserOnly(prev, s) ==
  IF /\ UserIdOf(s.resolvedUser) # UserIdOf(prev.resolvedUser)
     /\ s.resolvedUser # Null
     /\ s.resolvedUser[1].user_id # ""
  THEN fetchAndSetLeagues(
         [s EXCEPT !.isLoading = TRUE,
                   !.error = Null,
                   !.leagueDetailsError = Null],
         s.resolvedUser[1].user_id, s.leagueYear)
  ELSE s

\* The effect on [leagueYear, resolvedUser?.user_id]: it runs after the render
\* that follows a handler's writes when a dependency differs from the
\* previous render's (prev), and sees the state s of the new render.
useEffect(prev, s) ==
  IF /\ <<s.leagueYear, UserIdOf(s.resolvedUser)>>
          # <<prev.leagueYear, UserIdOf(prev.resolvedUser)>>
     /\ s.resolvedUser # Null
     /\ s.resolvedUser[1].user_id # ""
  THEN fetchAndSetLeagues(
         [s EXCEPT !.isLoading = TRUE,
                   !.error = Null,
                   !.leagueDetailsError = Null],
         s.resolvedUser[1].user_id, s.leagueYear)
  ELSE s

\* The writes s of one handler run are committed, the component renders and
\* its effect runs; at most bound requests are left in flight.
RenderWithin(s, bound) ==
  LET t == useEffect(Session, s)
  IN  /\ Len(t.pending) <= bound
      /\ inputValue' = t.inputValue
      /\ resolvedUser' = t.resolvedUser
      /\ displayName' = t.displayName
      /\ leagues' = t.leagues
      /\ selectedLeagueId' = t.selectedLeagueId
      /\ selectedLeagueDetails' = t.selectedLeagueDetails
      /\ leagueYear' = t.leagueYear
      /\ isLoading' = t.isLoading
      /\ isLoadingDetails' = t.isLoadingDetails
      /\ error' = t.error
      /\ leagueDetailsError' = t.leagueDetailsError
      /\ displayableScoring' = t.displayableScoring
      /\ pending' = t.pending
      /\ UNCHANGED API_BASE_URL

Render(s) == RenderWithin(s, MaxInFlight)

\* ----------------------------------------------------------------- actions
NoResponse == [transport |-> FALSE, status |-> 0, json |-> Null]

\* What lastEvent records of a step: the trigger or arrival, the request
\* answered, its answer and whether that was a success (for an arrival), and
\* whether a user, and a selected league with its detail, were held before
\* the step.
Event(type, req, response) ==
  [type |-> type, req |-> req, response |-> response,
   ok |-> Succeeded(response),
   hadUser |-> resolvedUser # Null,
   hadDetails |-> selectedLeagueId # "" /\ selectedLeagueDetails # Null]

Init ==
  /\ inputValue = InitialSession.inputValue
  /\ resolvedUser = InitialSession.resolvedUser
  /\ displayName = InitialSession.displayName
  /\ leagues = InitialSession.leagues
  /\ selectedLeagueId = InitialSession.selectedLeagueId
  /\ selectedLeagueDetails = InitialSession.selectedLeagueDetails
  /\ leagueYear = InitialSession.leagueYear
  /\ isLoading = InitialSession.isLoading
  /\ isLoadingDetails = InitialSession.isLoadingDetails
  /\ error = InitialSession.error
  /\ leagueDetailsError = InitialSession.leagueDetailsError
  /\ displayableScoring = InitialSession.displayableScoring
  /\ pending = InitialSession.pending
  /\ API_BASE_URL \in {Null, Some(ConfiguredBaseUrl)}
  /\ lastEvent = Event("mount", NoRequest, NoResponse)

\* The identifier input and both submit buttons are disabled while loading.
FormEnabled == ~(isLoading \/ isLoadingDetails)

\* A variant of the league selector that stays enabled while details load.
LeagueSelectEnabledWhileLoadingDetails ==
  resolvedUser # Null /\ Len(leagues) > 0 /\ ~isLoading

\* The league selector is rendered for a resolved user with leagues when not
\* loading, and disabled while details load.
LeagueSelectEnabled ==
  resolvedUser # Null /\ Len(leagues) > 0 /\ ~isLoading /\ ~isLoadingDetails

\* The user edits the identifier input.
InputChange(value) ==
  /\ FormEnabled
  /\ value # inputValue
  /\ Render([Session EXCEPT !.inputValue = value])
  /\ lastEvent' = Event("input", NoRequest, NoResponse)

\* The user submits the form.
Submit ==
  /\ FormEnabled
  /\ Render(handleSubmit(Session))
  /\ lastEvent' = Event("submit", NoRequest, NoResponse)

\* The user clicks the default-identifier button.
MyIdClick ==
  /\ FormEnabled
  /\ Render(handleMyIdClick(Session))
  /\ lastEvent' = Event("myId", NoRequest, NoResponse)

\* The user picks another season.
YearChange(value) ==
  /\ value # leagueYear
  /\ Render(onYearChange(Session, value))
  /\ lastEvent' = Event("yearChange", NoRequest, NoResponse)

\* The user picks another league; handleLeagueChange is also run with the
\* empty id its test of leagueId provides for.
LeagueChange(leagueId) ==
  /\ LeagueSelectEnabled
  /\ leagueId # selectedLeagueId
  /\ Render(handleLeagueChange(Session, leagueId))
  /\ lastEvent' = Event("leagueChange", NoRequest, NoResponse)

\* The answer r to the i-th request in flight arrives.
ResolveArrives(i, r) ==
  /\ pending[i].kind = "resolve"
  /\ Render(processSleeperDataResumed(
              [Session EXCEPT !.pending = AfterArrival(@, i)], pending[i], r))
  /\ lastEvent' = Event("resolveArrives", pending[i], r)

LeaguesArrive(i, r) ==
  /\ pending[i].kind = "leagues"
  /\ Render(fetchAndSetLeaguesResumed(
              [Session EXCEPT !.pending = AfterArrival(@, i)], pending[i], r))
  /\ lastEvent' = Event("leaguesArrive", pending[i], r)

DetailsArrive(i, r) ==
  /\ pending[i].kind = "details"
  /\ Render(handleLeagueChangeResumed(
              [Session EXCEPT !.pending = AfterArrival(@, i)], r))
  /\ lastEvent' = Event("detailsArrive", pending[i], r)

Next ==
  \/ \E value \in Inputs : InputChange(value)
  \/ Submit
  \/ MyIdClick
  \/ \E value \in Years : YearChange(value)
  \/ \E leagueId \in {l.league_id : l \in SeqRange(leagues)} \cup {""} :
       LeagueChange(leagueId)
  \/ \E i \in 1..Len(pending) : \E r \in Responses(pending[i]) :
       \/ ResolveArrives(i, r)
       \/ LeaguesArrive(i, r)
       \/ DetailsArrive(i, r)

Spec == Init /\ [][Next]_vars

\* Some request in flight is answered.
Arrives ==
  \E i \in 1..Len(pending) : \E r \in Responses(pending[i]) :
    \/ ResolveArrives(i, r)
    \/ LeaguesArrive(i, r)
    \/ DetailsArrive(i, r)

\* The component when requests complete: fetch settles every request, so
\* while one is in flight an answer keeps arriving.
LiveSpec == Init /\ [][Next]_vars /\ WF_vars(Arrives)

\* The answer r to the oldest request in flight arrives.  Two resolutions
\* in flight leave three enumerations behind them, so the continuation may
\* leave MaxInOrder requests in flight.
OldestArrives(r) ==
  LET req == pending[1]
      s == [Session EXCEPT !.pending = AfterArrival(@, 1)]
  IN  \/ /\ req.kind = "resolve"
         /\ RenderWithin(processSleeperDataResumed(s, req, r), MaxInOrder)
         /\ lastEvent' = Event("resolveArrives", req, r)
      \/ /\ req.kind = "leagues"
         /\ RenderWithin(fetchAndSetLeaguesResumed(s, req, r), MaxInOrder)
         /\ lastEvent' = Event("leaguesArrive", req, r)
      \/ /\ req.kind = "details"
         /\ RenderWithin(handleLeagueChangeResumed(s, r), MaxInOrder)
         /\ lastEvent' = Event("detailsArrive", req, r)

\* The component when the answers arrive in the order the requests were
\* issued: only the oldest request in flight is answered.
InOrderNext ==
  \/ \E value \in Inputs : InputChange(value)
  \/ Submit
  \/ MyIdClick
  \/ \E value \in Years : YearChange(value)
  \/ \E leagueId \in {l.league_id : l \in SeqRange(leagues)} \cup {""} :
       LeagueChange(leagueId)
  \/ /\ pending # <<>>
     /\ \E r \in Responses(pending[1]) : OldestArrives(r)

InOrderSpec == Init /\ [][InOrderNext]_vars


\* ------------------------------------------- the detail fetcher on its own
\* fetchSleeperLeagueDetails is exported: here it is called directly, with
\* any league id, the empty one and one the backend does not hold among
\* them.  The component's state is not involved and stays as constructed.
LeagueIdInputs ==
  {"", "9999"} \cup {l.league_id : l \in AllBackendLeagues}

\* What lastEvent records of a call: the id it was given, how the call went
\* up to its fetch and, once answered, what it returned.
FetcherEvent(type, leagueId, call, result) ==
  [type |-> type, leagueId |-> leagueId, call |-> call, result |-> result]

NoCall == [outcome |-> "none", message |-> Null, request |-> Null]

FetcherInit ==
  /\ inputValue = InitialSession.inputValue
  /\ resolvedUser = InitialSession.resolvedUser
  /\ displayName = InitialSession.displayName
  /\ leagues = InitialSession.leagues
  /\ selectedLeagueId = InitialSession.selectedLeagueId
  /\ selectedLeagueDetails = InitialSession.selectedLeagueDetails
  /\ leagueYear = InitialSession.leagueYear
  /\ isLoading = InitialSession.isLoading
  /\ isLoadingDetails = InitialSession.isLoadingDetails
  /\ error = InitialSession.error
  /\ leagueDetailsError = InitialSession.leagueDetailsError
  /\ displayableScoring = InitialSession.displayableScoring
  /\ pending = <<>>
  /\ API_BASE_URL \in {Null, Some(ConfiguredBaseUrl)}
  /\ lastEvent = FetcherEvent("loaded", "", NoCall, Null)

ComponentUntouched ==
  UNCHANGED <<inputValue, resolvedUser, displayName, leagues,
              selectedLeagueId, selectedLeagueDetails, leagueYear, isLoading,
              isLoadingDetails, error, leagueDetailsError, displayableScoring,
              API_BASE_URL>>

\* fetchSleeperLeagueDetails(leagueId) is called and runs to its fetch.
DetailsCalled(leagueId) ==
  LET call == fetchSleeperLeagueDetailsCalled(API_BASE_URL, leagueId)
  IN  /\ pending' = IF call.request = Null THEN pending
                    ELSE Append(pending, call.request[1])
      /\ Len(pending') <= MaxInFlight
      /\ lastEvent' = FetcherEvent("detailsCalled", leagueId, call, Null)
      /\ ComponentUntouched

\* The answer r to the i-th request arrives and the call awaiting it returns.
DetailsAnswered(i, r) ==
  /\ pending' = AfterArrival(pending, i)
  /\ lastEvent' = FetcherEvent("detailsAnswered", pending[i].arg,
                     fetchSleeperLeagueDetailsCalled(API_BASE_URL, pending[i].arg),
                     fetchSleeperLeagueDetails(r))
  /\ ComponentUntouched

FetcherNext ==
  \/ \E leagueId \in LeagueIdInputs : DetailsCalled(leagueId)
  \/ \E i \in 1..Len(pending) : \E r \in Responses(pending[i]) :
       DetailsAnswered(i, r)

FetcherSpec == FetcherInit /\ [][FetcherNext]_vars


\* ---------------------------------------- the catalog filter on its own
\* uniqueScoringRules runs once, when the module is loaded, over the declared
\* registration list.  Here it runs over the declared list and over every
\* short list of rules that repeat keys under different labels.
RegistrationKeys == {"rec", "sack", "pass_int"}

RegistrationLabels == {"PPR", "Sacks"}

RegistrationRules == [key : RegistrationKeys, label : RegistrationLabels]

RegistrationLists ==
  {ALL_SCORING_RULES}
    \cup UNION {[1..n -> RegistrationRules] : n \in 0..MaxRules}

RegistrationEvent(type, rules, unique) ==
  [type |-> type, rules |-> rules, unique |-> unique]

RegistrationInit ==
  /\ inputValue = InitialSession.inputValue
  /\ resolvedUser = InitialSession.resolvedUser
  /\ displayName = InitialSession.displayName
  /\ leagues = InitialSession.leagues
  /\ selectedLeagueId = InitialSession.selectedLeagueId
  /\ selectedLeagueDetails = InitialSession.selectedLeagueDetails
  /\ leagueYear = InitialSession.leagueYear
  /\ isLoading = InitialSession.isLoading
  /\ isLoadingDetails = InitialSession.isLoadingDetails
  /\ error = InitialSession.error
  /\ leagueDetailsError = InitialSession.leagueDetailsError
  /\ displayableScoring = InitialSession.displayableScoring
  /\ pending = <<>>
  /\ API_BASE_URL = Some(ConfiguredBaseUrl)
  /\ \E rules \in RegistrationLists :
       lastEvent = RegistrationEvent("declared", rules, <<>>)

\* The module is loaded: UNIQUE_SCORING_RULES is computed from the list.
ModuleLoaded ==
  /\ lastEvent.type = "declared"
  /\ lastEvent' = RegistrationEvent("loaded", lastEvent.rules,
                    uniqueScoringRules(lastEvent.rules))
  /\ UNCHANGED pending
  /\ ComponentUntouched

RegistrationNext == ModuleLoaded

RegistrationSpec == RegistrationInit /\ [][RegistrationNext]_vars

\* ------------------------------------------- the normalizer on its own
\* getDisplayableScoringSettings is exported: here it is called directly.
\* The keys of the raw maps: the four allow-listed keys, one of them a bonus;
\* a catalog key that is neither allow-listed nor a bonus; a key the catalog
\* does not hold; and a bonus the catalog does not hold.
RawKeys ==
  {"rec", "pass_td", "pass_sack", "bonus_rec_te", "pass_yd", "custom_rule",
   "bonus_unknown_thing"}

RawValues == {JsNumber(0), JsNumber(100), JsNumber(-50), JsNull, JsString}

RawEntries == [key : RawKeys, value : RawValues]

DistinctKeys(m) ==
  \A i, j \in 1..Len(m) : i # j => m[i].key # m[j].key

\* More bonus keys the catalog does not hold: a word that starts with a
\* digit, two underscores in a row, and the bare prefix.
UnknownBonusKeys == {"bonus_rec_yd_40p", "bonus__te", "bonus_"}

\* Pairs of bonus keys that differ in the case of a letter: two keys the
\* catalog does not hold, and a key of the catalog next to a key that spells
\* out its label.
TwinBonusKeys ==
  {<<"bonus_unknown_thing", "bonus_unknown_Thing">>,
   <<"bonus_fd_rb", "bonus_RB_first_downs">>}

\* The raw maps of at most MaxKeys keys, in every order of their keys, the
\* maps of one of the further bonus keys, and the maps of a pair of twins.
RawObjects ==
  UNION {{m \in [1..n -> RawEntries] : DistinctKeys(m)} : n \in 0..MaxKeys}
    \cup {<<[key |-> k, value |-> v]>> : k \in UnknownBonusKeys, v \in RawValues}
    \cup {<<[key |-> t[1], value |-> v], [key |-> t[2], value |-> w]>> :
            t \in TwinBonusKeys, v \in RawValues, w \in RawValues}

\* What a caller passes: null or undefined, or a raw map.
RawMappings == {Null} \cup {Some(m) : m \in RawObjects}

\* What the module holds between calls.
LoadedModule == [UNIQUE_SCORING_RULES |-> UNIQUE_SCORING_RULES]

\* A variant that runs the passes on null as on a map: reading a property
\* of null throws.
getDisplayableScoringSettingsCalledUnguarded(module, apiSettings) ==
  IF apiSettings = Null
  THEN [outcome |-> "throws", value |-> <<>>,
        module |-> module, apiSettings |-> apiSettings]
  ELSE [outcome |-> "returns",
        value |-> DisplayableSettings(module.UNIQUE_SCORING_RULES, apiSettings),
        module |-> module, apiSettings |-> apiSettings]

\* A variant that keeps processedKeys in the module, across calls.
getDisplayableScoringSettingsCalledSharingProcessedKeys(module, apiSettings) ==
  IF apiSettings = Null
  THEN [outcome |-> "returns", value |-> <<>>,
        module |-> module, apiSettings |-> apiSettings]
  ELSE LET catalog == module.UNIQUE_SCORING_RULES
           shared == IF "processedKeys" \in DOMAIN module
                     THEN module.processedKeys ELSE {}
           first == CatalogPass(catalog, apiSettings[1], 1, Len(catalog),
                      [display |-> <<>>, processedKeys |-> shared])
           second == FallbackPass(catalog, apiSettings[1], 1, first)
       IN  [outcome |-> "returns", value |-> SortByLabel(second.display),
            module |-> [UNIQUE_SCORING_RULES |-> catalog,
                        processedKeys |-> first.processedKeys],
            apiSettings |-> apiSettings]

\* One call of getDisplayableScoringSettings: how it ends, what it returns,
\* and the module's state and the caller's map as the call leaves them.
\* displaySettings and processedKeys are created by the call; it writes to
\* neither the catalog nor the map.
getDisplayableScoringSettingsCalled(module, apiSettings) ==
  [outcome |-> "returns",
   value |-> IF apiSettings = Null THEN <<>>
             ELSE DisplayableSettings(module.UNIQUE_SCORING_RULES, apiSettings),
   module |-> module, apiSettings |-> apiSettings]

\* What lastEvent records: the caller's map, the module's state, the answer
\* of the caller's latest call and the answer of its first, whether the
\* caller has called never, once or more often (calls is 0, 1 or 2), and
\* whether another map was normalized after the caller's first call.
NormalizerEvent(type, apiSettings, module, result, first, calls, between) ==
  [type |-> type, apiSettings |-> apiSettings, module |-> module,
   result |-> result, first |-> first, calls |-> calls, between |-> between]

Answer(call) == Some([outcome |-> call.outcome, value |-> call.value])

NormalizerInit ==
  /\ inputValue = InitialSession.inputValue
  /\ resolvedUser = InitialSession.resolvedUser
  /\ displayName = InitialSession.displayName
  /\ leagues = InitialSession.leagues
  /\ selectedLeagueId = InitialSession.selectedLeagueId
  /\ selectedLeagueDetails = InitialSession.selectedLeagueDetails
  /\ leagueYear = InitialSession.leagueYear
  /\ isLoading = InitialSession.isLoading
  /\ isLoadingDetails = InitialSession.isLoadingDetails
  /\ error = InitialSession.error
  /\ leagueDetailsError = InitialSession.leagueDetailsError
  /\ displayableScoring = InitialSession.displayableScoring
  /\ pending = <<>>
  /\ API_BASE_URL = Some(ConfiguredBaseUrl)
  /\ \E apiSettings \in RawMappings :
       lastEvent = NormalizerEvent("held", apiSettings, LoadedModule, Null, Null,
                                   0, FALSE)

\* The caller normalizes the map it holds.
Normalized ==
  LET call == getDisplayableScoringSettingsCalled(lastEvent.module,
                                                  lastEvent.apiSettings)
  IN  /\ lastEvent' = NormalizerEvent("normalized", call.apiSettings,
                        call.module, Answer(call),
                        IF lastEvent.first = Null THEN Answer(call)
                        ELSE lastEvent.first,
                        IF lastEvent.calls = 0 THEN 1 ELSE 2,
                        lastEvent.between)
      /\ UNCHANGED pending
      /\ ComponentUntouched

\* The caller calls once.
NormalizerNext == lastEvent.type = "held" /\ Normalized

NormalizerSpec == NormalizerInit /\ [][NormalizerNext]_vars

\* ------------------------------------------ the normalizer called again
\* The same caller, with calls on another map made in between its own.  Its
\* maps are those over three of the keys.
RepeatedKeys == {"rec", "bonus_rec_te", "bonus_unknown_thing"}

HeldMappings ==
  {a \in RawMappings :
     a = Null \/ \A i \in 1..Len(a[1]) : a[1][i].key \in RepeatedKeys}

\* The maps of the calls made in between.
OtherMappings == {Null, Some(SampleScoring)}

RepeatedInit ==
  /\ inputValue = InitialSession.inputValue
  /\ resolvedUser = InitialSession.resolvedUser
  /\ displayName = InitialSession.displayName
  /\ leagues = InitialSession.leagues
  /\ selectedLeagueId = InitialSession.selectedLeagueId
  /\ selectedLeagueDetails = InitialSession.selectedLeagueDetails
  /\ leagueYear = InitialSession.leagueYear
  /\ isLoading = InitialSession.isLoading
  /\ isLoadingDetails = InitialSession.isLoadingDetails
  /\ error = InitialSession.error
  /\ leagueDetailsError = InitialSession.leagueDetailsError
  /\ displayableScoring = InitialSession.displayableScoring
  /\ pending = <<>>
  /\ API_BASE_URL = Some(ConfiguredBaseUrl)
  /\ \E apiSettings \in HeldMappings :
       lastEvent = NormalizerEvent("held", apiSettings, LoadedModule, Null, Null,
                                   0, FALSE)

\* Somebody else normalizes another map in between.
NormalizedOther(other) ==
  LET call == getDisplayableScoringSettingsCalled(lastEvent.module, other)
  IN  /\ lastEvent' = NormalizerEvent("normalizedOther", lastEvent.apiSettings,
                        call.module, lastEvent.result, lastEvent.first,
                        lastEvent.calls, lastEvent.calls > 0)
      /\ UNCHANGED pending
      /\ ComponentUntouched

RepeatedNext ==
  \/ Normalized
  \/ \E other \in OtherMappings : NormalizedOther(other)

RepeatedSpec == RepeatedInit /\ [][RepeatedNext]_vars

\* -------------------------------------------------------------- properties
\* Whether a league-detail request is among the requests inFlight.
DetailInFlight(inFlight) ==
  \E j \in 1..Len(inFlight) : inFlight[j].kind = "details"

\* The leagues the backend holds for the resolved user in the season held.
CurrentLeagues ==
  IF resolvedUser = Null THEN <<>>
  ELSE BackendLeagues(resolvedUser[1].user_id, leagueYear)

\* C1: in every reachable state a held league detail is for one of the
\* leagues of the resolved user in the season held in leagueYear.
DetailValidForSeason ==
  selectedLeagueDetails # Null =>
    \E l \in SeqRange(CurrentLeagues) :
      l.league_id = selectedLeagueDetails[1].league_id

\* C2: the answer to an enumeration request is written to the league list on
\* arrival whatever the user and season held by then, and its arrival cancels
\* no other request: the other requests stay in flight.
EnumerationAppliedUnconditionally ==
  [][lastEvent'.type = "leaguesArrive" =>
       /\ leagues' = IF lastEvent'.ok
                     THEN BackendLeagues(lastEvent'.req.arg, lastEvent'.req.year)
                     ELSE <<>>
       /\ Len(pending') = Len(pending) - 1]_vars

\* C2, its case: no request is in flight and the league list is the answer
\* to a request that a later-issued enumeration request overtook, for a
\* season other than the one held.
SupersededLeaguesHeld ==
  /\ pending = <<>>
  /\ lastEvent.type = "leaguesArrive"
  /\ lastEvent.ok
  /\ lastEvent.req.overtaken
  /\ resolvedUser # Null
  /\ <<lastEvent.req.arg, lastEvent.req.year>>
       # <<resolvedUser[1].user_id, leagueYear>>
  /\ leagues = BackendLeagues(lastEvent.req.arg, lastEvent.req.year)
  /\ leagues # CurrentLeagues

\* C3: once a non-blank identifier has been submitted, by the form or by the
\* default-identifier button, and its resolution request issued, the user,
\* the display name and the league detail are null, the league list, the
\* displayable scoring and the selected league id are empty, both errors are
\* null and isLoading is true.
SubmitResetsDownstream ==
  (/\ API_BASE_URL # Null
   /\ \/ lastEvent.type = "myId"
      \/ lastEvent.type = "submit" /\ Trim(inputValue) # "")
  => /\ resolvedUser = Null
     /\ displayName = Null
     /\ selectedLeagueDetails = Null
     /\ leagues = <<>>
     /\ displayableScoring = <<>>
     /\ selectedLeagueId = ""
     /\ error = Null
     /\ leagueDetailsError = Null
     /\ isLoading
     /\ pending # <<>>
     /\ pending[Len(pending)].kind = "resolve"
     /\ pending[Len(pending)].arg = Trim(inputValue)

\* C3, its case: an identifier was submitted by the form while a user and a
\* league with its detail were held, and the resolution request is in flight.
SubmittedOverLoadedDetail ==
  /\ lastEvent.type = "submit"
  /\ Trim(inputValue) # ""
  /\ lastEvent.hadUser
  /\ lastEvent.hadDetails
  /\ isLoading
  /\ pending # <<>>
  /\ pending[Len(pending)].kind = "resolve"

\* C4: a season change with a user resolved issues one enumeration request,
\* for that user's id and the new season, issues no resolution request and
\* keeps the user; with no user resolved it issues no request.
SeasonChangeReenumerates ==
  [][leagueYear' # leagueYear =>
       IF resolvedUser # Null
       THEN /\ pending' = Append(pending,
                            LeaguesRequest(resolvedUser[1].user_id, leagueYear'))
            /\ resolvedUser' = resolvedUser
       ELSE pending' = pending]_vars

\* C4, its case: the season was changed with a user resolved and the request
\* for that user's leagues in the new season is in flight.
SeasonChangedWithUser ==
  /\ lastEvent.type = "yearChange"
  /\ lastEvent.hadUser
  /\ resolvedUser # Null
  /\ pending # <<>>
  /\ pending[Len(pending)] = LeaguesRequest(resolvedUser[1].user_id, leagueYear)

\* C5: a season change leaves the selected league id empty, the league
\* detail null and the displayable scoring empty, and puts no detail request
\* in flight; and while the detail is null and no detail request is in
\* flight, the detail stays null and no detail request is issued until a
\* league is selected.
SeasonChangeInvalidatesDetail ==
  [][/\ leagueYear' # leagueYear =>
          /\ selectedLeagueId' = ""
          /\ selectedLeagueDetails' = Null
          /\ displayableScoring' = <<>>
          /\ ~DetailInFlight(pending) => ~DetailInFlight(pending')
     /\ (/\ selectedLeagueDetails = Null
         /\ ~DetailInFlight(pending)
         /\ lastEvent'.type # "leagueChange")
        => /\ selectedLeagueDetails' = Null
           /\ ~DetailInFlight(pending')]_vars

\* C5, its case: the season was changed while a user, a selected league and
\* its loaded detail were held and no detail request was in flight.
SeasonChangedOverLoadedDetail ==
  /\ lastEvent.type = "yearChange"
  /\ lastEvent.hadUser
  /\ lastEvent.hadDetails
  /\ ~DetailInFlight(pending)
  /\ selectedLeagueId = ""
  /\ selectedLeagueDetails = Null
  /\ displayableScoring = <<>>

\* C6: resolvedUser changes only in the identifier-submission flow: a
\* submission of a non-blank identifier clears it, the arrival of the
\* resolution answer sets it to the user resolved or clears it, and no
\* season change, league selection, enumeration answer or detail answer
\* changes it.
ResolvedUserWrittenBySubmissionOnly ==
  [][/\ resolvedUser' # resolvedUser =>
          lastEvent'.type \in {"submit", "myId", "resolveArrives"}
     /\ lastEvent'.type = "myId" => resolvedUser' = Null
     /\ lastEvent'.type = "submit" =>
          resolvedUser' = IF Trim(inputValue) = "" THEN resolvedUser ELSE Null
     /\ lastEvent'.type = "resolveArrives" =>
          /\ resolvedUser' \in
               {Null, Some(BackendResolve(lastEvent'.req.arg))}
          /\ ~lastEvent'.ok => resolvedUser' = Null
          /\ resolvedUser' # Null => resolvedUser'[1].user_id # ""]_vars

\* C6, its case: a detail answer arrived while a user was resolved, and the
\* user is still held.
DetailAnswerKeptUser ==
  /\ lastEvent.type = "detailsArrive"
  /\ lastEvent.ok
  /\ lastEvent.hadUser
  /\ resolvedUser # Null
  /\ selectedLeagueDetails # Null

\* C7: selecting a league by a non-empty id clears the league detail, the
\* displayable scoring and the detail error, issues one detail request for
\* that id, and leaves resolvedUser, displayName, leagues, leagueYear and
\* error as they were.
LeagueSelectionClearsDetailOnly ==
  [][lastEvent'.type = "leagueChange" /\ selectedLeagueId' # "" =>
       /\ selectedLeagueDetails' = Null
       /\ displayableScoring' = <<>>
       /\ leagueDetailsError' = Null
       /\ pending' = Append(pending, DetailsRequest(selectedLeagueId'))
       /\ UNCHANGED <<resolvedUser, displayName, leagues, leagueYear, error>>]_vars

\* C7, its case: a league was selected while the general error was set, and
\* the request for its details is the one request in flight.
LeagueSelectedWithErrorShown ==
  /\ lastEvent.type = "leagueChange"
  /\ selectedLeagueId # ""
  /\ error # Null
  /\ resolvedUser # Null
  /\ isLoadingDetails
  /\ pending = <<DetailsRequest(selectedLeagueId)>>

\* C8: selecting the empty league option issues no request, leaves
\* isLoadingDetails false and the league list as it was, and leaves no league
\* detail, no displayable scoring and no detail error.
EmptySelectionIssuesNothing ==
  [][lastEvent'.type = "leagueChange" /\ selectedLeagueId' = "" =>
       /\ pending' = pending
       /\ ~isLoadingDetails
       /\ ~isLoadingDetails'
       /\ leagues' = leagues
       /\ selectedLeagueDetails' = Null
       /\ displayableScoring' = <<>>
       /\ leagueDetailsError' = Null]_vars

\* C8, its case: the empty option was selected while a league and its detail
\* were held, and the league list is still there.
EmptyOptionSelectedOverDetail ==
  /\ lastEvent.type = "leagueChange"
  /\ selectedLeagueId = ""
  /\ lastEvent.hadDetails
  /\ Len(leagues) > 0
  /\ selectedLeagueDetails = Null

\* C9: the arrival of a failed answer to a detail request sets
\* leagueDetailsError, leaves resolvedUser, displayName, leagues,
\* selectedLeagueId, leagueYear and error as they were, and the league
\* detail, null before it, is null after it.
DetailFailureIsDetailScoped ==
  [][lastEvent'.type = "detailsArrive" /\ ~lastEvent'.ok =>
       /\ leagueDetailsError' # Null
       /\ selectedLeagueDetails = Null
       /\ selectedLeagueDetails' = Null
       /\ UNCHANGED <<resolvedUser, displayName, leagues, selectedLeagueId,
                      leagueYear, error>>]_vars

\* C9, its case: a detail request failed while a user, a league list and a
\* selected league were held.
DetailRequestFailed ==
  /\ lastEvent.type = "detailsArrive"
  /\ ~lastEvent.ok
  /\ leagueDetailsError # Null
  /\ resolvedUser # Null
  /\ Len(leagues) > 0
  /\ selectedLeagueId # ""

\* C10: the arrival of a failed answer to an enumeration request leaves
\* resolvedUser and displayName as they were and the league list empty.
EnumerationFailureKeepsUser ==
  [][lastEvent'.type = "leaguesArrive" /\ ~lastEvent'.ok =>
       /\ leagues' = <<>>
       /\ UNCHANGED <<resolvedUser, displayName>>]_vars

\* C10, its case: an enumeration request failed while a user was resolved.
EnumerationFailedWithUser ==
  /\ lastEvent.type = "leaguesArrive"
  /\ ~lastEvent.ok
  /\ lastEvent.hadUser
  /\ resolvedUser # Null
  /\ displayName # Null
  /\ leagues = <<>>

\* The requests in flight after a step are those before it without the one
\* answered: the step has issued none.
AnsweredAndIssuedNone ==
  \E i \in 1..Len(pending) :
    /\ pending[i] = lastEvent'.req
    /\ pending' = AfterArrival(pending, i)

\* C11: after the arrival of a failed answer to an enumeration request the
\* session carries an error, which tells it from the arrival of an answer
\* with no leagues.
EnumerationFailureFlagged ==
  (lastEvent.type = "leaguesArrive" /\ ~lastEvent.ok) => error # Null

\* C12: submitting an input that is empty once trimmed issues no request,
\* leaves isLoading false, sets the general error, and leaves every other
\* field of the session (resolvedUser, leagues, selection, detail among them)
\* as it was.
BlankSubmitOnlySetsError ==
  [][lastEvent'.type = "submit" /\ Trim(inputValue) = "" =>
       /\ error' = Some("Please enter a Sleeper Username or ID.")
       /\ ~isLoading'
       /\ UNCHANGED <<inputValue, resolvedUser, displayName, leagues,
                      selectedLeagueId, selectedLeagueDetails, leagueYear,
                      isLoading, isLoadingDetails, leagueDetailsError,
                      displayableScoring, pending>>]_vars

\* C12, its case: a blank input was submitted while a user, a league list
\* and a selected league with its detail were held, and they still are.
BlankSubmittedOverLoadedDetail ==
  /\ lastEvent.type = "submit"
  /\ Trim(inputValue) = ""
  /\ lastEvent.hadUser
  /\ lastEvent.hadDetails
  /\ resolvedUser # Null
  /\ Len(leagues) > 0
  /\ selectedLeagueDetails # Null
  /\ error = Some("Please enter a Sleeper Username or ID.")
  /\ pending = <<>>

\* C13: when the answer to the resolution request is a success whose body
\* carries an error field, resolvedUser is null afterwards, the general
\* error is the text of that field, and no request is issued.
ErrorFieldFailsResolution ==
  [][(/\ lastEvent'.type = "resolveArrives"
      /\ Succeeded(lastEvent'.response)
      /\ Truthy(lastEvent'.response.json[1].error))
     => /\ resolvedUser' = Null
        /\ error' = lastEvent'.response.json[1].error
        /\ AnsweredAndIssuedNone]_vars

\* C13, its case: the resolution of "rival" was answered with an error
\* field, and the session shows its text with no user and nothing in flight.
ResolutionAnsweredWithErrorField ==
  /\ lastEvent.type = "resolveArrives"
  /\ lastEvent.req.arg = "rival"
  /\ Succeeded(lastEvent.response)
  /\ lastEvent.response.json[1].error = Some("Sleeper user not found")
  /\ resolvedUser = Null
  /\ error = Some("Sleeper user not found")
  /\ pending = <<>>

\* C14: when the answer to the resolution request has a non-success status,
\* resolvedUser is null afterwards and the general error is the detail
\* string of the body when the body has one, and otherwise the message
\* naming the status.
StatusFailureMessage ==
  [][(/\ lastEvent'.type = "resolveArrives"
      /\ ~lastEvent'.response.transport
      /\ ~(lastEvent'.response.status \in 200..299))
     => /\ resolvedUser' = Null
        /\ error' =
             IF /\ lastEvent'.response.json # Null
                /\ Truthy(lastEvent'.response.json[1].detail)
             THEN lastEvent'.response.json[1].detail
             ELSE Some("HTTP error! status: "
                         \o ToString(lastEvent'.response.status))]_vars

\* C14, its case: the resolution was answered 404 with a detail string, and
\* the session shows that string.
ResolutionAnsweredWithDetail ==
  /\ lastEvent.type = "resolveArrives"
  /\ lastEvent.response.status = 404
  /\ lastEvent.response.json # Null
  /\ error = lastEvent.response.json[1].detail
  /\ error = Some("Not found upstream")
  /\ resolvedUser = Null

\* C15: when the answer to a detail request has a non-success status and a
\* body with a detail string, leagueDetailsError is that string.
DetailErrorIsDetailString ==
  (/\ lastEvent.type = "detailsArrive"
   /\ ~lastEvent.response.transport
   /\ ~(lastEvent.response.status \in 200..299)
   /\ lastEvent.response.json # Null
   /\ Truthy(lastEvent.response.json[1].detail))
  => leagueDetailsError = lastEvent.response.json[1].detail

\* Whether the resolution fails on the answer r: the request failed, or the
\* body carries an error field or no user id.
ResolutionFailed(r) ==
  \/ ~Succeeded(r)
  \/ Truthy(r.json[1].error)
  \/ r.json[1].user_id = ""

\* C16: the arrival of a failed answer to a resolution, enumeration or
\* detail request issues no request; a user trigger issues at most one and
\* keeps those in flight; and requests are issued only by a user trigger
\* (submission, season change, league selection) or by the arrival of a
\* successful resolution.
NoAutomaticRetry ==
  [][/\ (\/ /\ lastEvent'.type \in {"leaguesArrive", "detailsArrive"}
            /\ ~Succeeded(lastEvent'.response)
         \/ /\ lastEvent'.type = "resolveArrives"
            /\ ResolutionFailed(lastEvent'.response))
        => AnsweredAndIssuedNone
     /\ lastEvent'.type \in {"submit", "myId", "yearChange", "leagueChange"}
        => /\ Len(pending') <= Len(pending) + 1
           /\ SubSeq(pending', 1, Len(pending)) = pending
     /\ (pending' # pending /\ ~AnsweredAndIssuedNone)
        => \/ lastEvent'.type \in
                {"submit", "myId", "yearChange", "leagueChange"}
           \/ /\ lastEvent'.type = "resolveArrives"
              /\ ~ResolutionFailed(lastEvent'.response)]_vars

\* C16, its case: an enumeration request failed while a user was resolved,
\* and nothing is in flight afterwards.
FailedEnumerationNotRetried ==
  /\ lastEvent.type = "leaguesArrive"
  /\ ~Succeeded(lastEvent.response)
  /\ lastEvent.hadUser
  /\ resolvedUser # Null
  /\ ~isLoading
  /\ pending = <<>>

\* C17: fetchSleeperLeagueDetails called with an empty league id issues no
\* request and yields no detail: it returns null (or, without a base URL,
\* throws) before any fetch.
EmptyLeagueIdFailsLocally ==
  [][lastEvent'.type = "detailsCalled" /\ lastEvent'.leagueId = "" =>
       /\ pending' = pending
       /\ lastEvent'.call.request = Null
       /\ lastEvent'.result = Null
       /\ lastEvent'.call.outcome =
            IF API_BASE_URL = Null THEN "throws" ELSE "returns"]_vars

\* C17, its case: the fetcher was called with the empty id while a base URL
\* is configured and another call's request is in flight; it has returned
\* and that request is the only one.
CalledWithEmptyLeagueId ==
  /\ lastEvent.type = "detailsCalled"
  /\ lastEvent.leagueId = ""
  /\ API_BASE_URL # Null
  /\ lastEvent.call.outcome = "returns"
  /\ Len(pending) = 1

\* C18: in every reachable state isLoading is true while a resolution or an
\* enumeration request is in flight, and isLoadingDetails is true while a
\* detail request is in flight.
LoadingWhileInFlight ==
  /\ (\E j \in 1..Len(pending) : pending[j].kind \in {"resolve", "leagues"})
     => isLoading
  /\ DetailInFlight(pending) => isLoadingDetails

\* The requests a step has issued: those in flight after it that were not
\* in flight before it.
Issued ==
  IF lastEvent'.type \in {"resolveArrives", "leaguesArrive", "detailsArrive"}
  THEN SubSeq(pending', Len(pending), Len(pending'))
  ELSE SubSeq(pending', Len(pending) + 1, Len(pending'))

\* C19: every enumeration request is issued for the id of the user held,
\* never the empty id, and for the season held in leagueYear when it is
\* issued.
EnumerationForCurrentSeason ==
  [][\A j \in 1..Len(Issued) :
       Issued[j].kind = "leagues" =>
         /\ resolvedUser' # Null
         /\ Issued[j].arg = resolvedUser'[1].user_id
         /\ Issued[j].arg # ""
         /\ Issued[j].year = leagueYear']_vars

\* C20: in every reachable state displayableScoring is the normalizer's
\* output for the scoring settings of the detail held, and empty when no
\* detail is held.
ScoringDerivedFromDetail ==
  displayableScoring =
    IF selectedLeagueDetails = Null THEN <<>>
    ELSE getDisplayableScoringSettings(selectedLeagueDetails[1].scoring_settings)

\* C20, its case: a detail with scoring settings is held and the displayable
\* scoring lists what the normalizer selects of them.
DetailHeldWithScoring ==
  /\ selectedLeagueDetails # Null
  /\ selectedLeagueDetails[1].scoring_settings # Null
  /\ Len(displayableScoring) = 4
  /\ \E k \in 1..Len(displayableScoring) :
       displayableScoring[k] = [label |-> "PPR", value |-> 100]


\* ---------------------------------------------------------------- catalog
\* Whether no rule before the i-th carries the i-th rule's key.
IsFirstOccurrence(rules, i) ==
  \A j \in 1..(i - 1) : rules[j].key # rules[i].key

\* The position in rules of the n-th first occurrence.
NthFirstOccurrence(rules, n) ==
  CHOOSE i \in 1..Len(rules) :
    /\ IsFirstOccurrence(rules, i)
    /\ Cardinality({j \in 1..(i - 1) : IsFirstOccurrence(rules, j)}) = n - 1

\* C21: for any registration list, the active catalog is the subsequence of
\* the first occurrences of the keys: every registered key is in it exactly
\* once, with the label of its first occurrence, and the entries keep the
\* relative order of the first occurrences.
CatalogIsFirstOccurrences ==
  lastEvent.type = "loaded" =>
    LET rules == lastEvent.rules
        unique == lastEvent.unique
        firsts == {i \in 1..Len(rules) : IsFirstOccurrence(rules, i)}
    IN  /\ Len(unique) = Cardinality(firsts)
        /\ \A n \in 1..Len(unique) : unique[n] = rules[NthFirstOccurrence(rules, n)]
        /\ \A i \in 1..Len(rules) :
             Cardinality({n \in 1..Len(unique) : unique[n].key = rules[i].key}) = 1

\* A list that registers a key again under another label has been filtered.
RepeatedKeyFiltered ==
  /\ lastEvent.type = "loaded"
  /\ Len(lastEvent.unique) < Len(lastEvent.rules)
  /\ \E i, j \in 1..Len(lastEvent.rules) :
       /\ i < j
       /\ lastEvent.rules[i].key = lastEvent.rules[j].key
       /\ lastEvent.rules[i].label # lastEvent.rules[j].label

\* -------------------------------------------------------------- normalizer
\* The words of the contract: the allow-list, the bonus prefix, the label of
\* a key.
AllowListedKeys == {"rec", "pass_td", "bonus_rec_te", "pass_sack"}

BonusPrefixed(k) == Len(k) >= 6 /\ SubSeq(k, 1, 6) = "bonus_"

\* The key with every underscore replaced by a space and the first character
\* of every word in upper case.
RECURSIVE TitleCased(_, _)
TitleCased(k, startsWord) ==
  IF k = "" THEN ""
  ELSE IF CharAt(k, 1) = "_" THEN " " \o TitleCased(Tail(k), TRUE)
  ELSE (IF startsWord THEN ToUpperChar(CharAt(k, 1)) ELSE CharAt(k, 1))
         \o TitleCased(Tail(k), FALSE)

InCatalog(k) == \E n \in 1..Len(UNIQUE_SCORING_RULES) : UNIQUE_SCORING_RULES[n].key = k

CatalogLabel(k) ==
  UNIQUE_SCORING_RULES[CHOOSE n \in 1..Len(UNIQUE_SCORING_RULES) :
                         UNIQUE_SCORING_RULES[n].key = k].label

LabelOf(k) == IF InCatalog(k) THEN CatalogLabel(k) ELSE TitleCased(k, TRUE)

\* The caller's call has returned; the raw map it passed (empty for null) and
\* the list it got.
HasNormalized == lastEvent.type = "normalized" /\ lastEvent.result[1].outcome = "returns"

RawMap == IF lastEvent.apiSettings = Null THEN <<>> ELSE lastEvent.apiSettings[1]

Output == lastEvent.result[1].value

NumericNonzero(value) == value.type = "number" /\ value.num # 0

\* C22: no entry of the normalizer's output has value 0 and each is the
\* nonzero numeric raw value of a key of the raw map, under that key's label;
\* zero, null, string and absent values yield no entry.
OutputValuesNonzeroNumbers ==
  HasNormalized =>
    \A n \in 1..Len(Output) :
      /\ Output[n].value # 0
      /\ \E i \in 1..Len(RawMap) :
           /\ RawMap[i].value.type = "number"
           /\ RawMap[i].value.num = Output[n].value
           /\ LabelOf(RawMap[i].key) = Output[n].label

\* A map with a displayable key of value zero or not a number next to one of
\* a nonzero value has been normalized to the one entry.
ZeroOrNonNumberDropped ==
  /\ HasNormalized
  /\ Len(Output) = 1
  /\ \E i, j \in 1..Len(RawMap) :
       /\ RawMap[i].key \in AllowListedKeys \/ BonusPrefixed(RawMap[i].key)
       /\ ~NumericNonzero(RawMap[i].value)
       /\ RawMap[j].key \in AllowListedKeys \/ BonusPrefixed(RawMap[j].key)
       /\ NumericNonzero(RawMap[j].value)

\* C23: a key that is neither allow-listed nor bonus-prefixed never produces
\* an entry, whatever its value and whether or not the catalog holds it:
\* every entry of the output is the entry of an allow-listed or bonus key of
\* the raw map, and there are no more entries than such keys.
OnlyGatedKeysDisplayed ==
  HasNormalized =>
    /\ \A n \in 1..Len(Output) :
         \E i \in 1..Len(RawMap) :
           /\ RawMap[i].key \in AllowListedKeys \/ BonusPrefixed(RawMap[i].key)
           /\ Output[n] = [label |-> LabelOf(RawMap[i].key),
                           value |-> RawMap[i].value.num]
    /\ Len(Output) <= Cardinality({i \in 1..Len(RawMap) :
                         RawMap[i].key \in AllowListedKeys \/ BonusPrefixed(RawMap[i].key)})

\* pass_yd and a key unknown to the catalog, both with nonzero values, have
\* been normalized.
UngatedKeysNormalized ==
  /\ HasNormalized
  /\ \E i, j \in 1..Len(RawMap) :
       /\ RawMap[i].key = "pass_yd" /\ NumericNonzero(RawMap[i].value)
       /\ ~InCatalog(RawMap[j].key) /\ ~BonusPrefixed(RawMap[j].key)
       /\ NumericNonzero(RawMap[j].value)
  /\ Output = <<>>

\* C24: every allow-listed key present in the raw map with a nonzero numeric
\* value v has an entry in the output with its catalog label and the value v.
AllowListedKeysDisplayed ==
  HasNormalized =>
    \A i \in 1..Len(RawMap) :
      RawMap[i].key \in AllowListedKeys /\ NumericNonzero(RawMap[i].value) =>
        /\ InCatalog(RawMap[i].key)
        /\ \E n \in 1..Len(Output) :
             Output[n] = [label |-> CatalogLabel(RawMap[i].key),
                          value |-> RawMap[i].value.num]

\* rec with the value of one point has been normalized to the entry PPR.
RecDisplayedAsPPR ==
  /\ HasNormalized
  /\ \E i \in 1..Len(RawMap) : RawMap[i] = [key |-> "rec", value |-> JsNumber(100)]
  /\ \E n \in 1..Len(Output) : Output[n] = [label |-> "PPR", value |-> 100]

\* C25: every bonus-prefixed key that the catalog does not hold and whose
\* value v is a nonzero number has an entry in the output with the value v
\* and the key's humanized label: underscores replaced by spaces, the first
\* letter of each word in upper case.
UnknownBonusHumanized ==
  HasNormalized =>
    \A i \in 1..Len(RawMap) :
      /\ BonusPrefixed(RawMap[i].key)
      /\ ~InCatalog(RawMap[i].key)
      /\ NumericNonzero(RawMap[i].value)
      => \E n \in 1..Len(Output) :
           Output[n] = [label |-> TitleCased(RawMap[i].key, TRUE),
                        value |-> RawMap[i].value.num]

\* bonus_unknown_thing with a nonzero value has been normalized to the entry
\* Bonus Unknown Thing.
UnknownBonusDisplayed ==
  /\ HasNormalized
  /\ \E i \in 1..Len(RawMap) :
       RawMap[i] = [key |-> "bonus_unknown_thing", value |-> JsNumber(100)]
  /\ \E n \in 1..Len(Output) :
       Output[n] = [label |-> "Bonus Unknown Thing", value |-> 100]

\* C26: the output is sorted non-decreasing by label under the label
\* comparison, whatever the order of the raw map's keys and whichever pass
\* pushed each entry.
OutputSortedByLabel ==
  HasNormalized =>
    \A n \in 1..(Len(Output) - 1) :
      localeCompare(Output[n].label, Output[n + 1].label) <= 0

\* The entry of the fallback pass, pushed last, has been sorted before the
\* entry of a catalog key.
FallbackEntrySortedFirst ==
  /\ HasNormalized
  /\ Len(Output) = 2
  /\ Output[1].label = "Bonus Unknown Thing"
  /\ \E i \in 1..Len(RawMap) :
       InCatalog(RawMap[i].key) /\ Output[2].label = CatalogLabel(RawMap[i].key)

\* C27: a raw map that is null, undefined or empty yields the empty list, and
\* the call returns it: it does not throw.
EmptyInputYieldsEmptyList ==
  lastEvent.type = "normalized"
    /\ (lastEvent.apiSettings = Null \/ lastEvent.apiSettings = Some(<<>>))
  => lastEvent.result = Some([outcome |-> "returns", value |-> <<>>])

\* The normalizer has been called with null.
NullNormalized ==
  /\ lastEvent.type = "normalized"
  /\ lastEvent.apiSettings = Null
  /\ lastEvent.result # Null

Occurrences(list, e) == Cardinality({n \in 1..Len(list) : list[n] = e})

\* The entry a raw key stands for: its label and its number.
EntryOf(i) == [label |-> LabelOf(RawMap[i].key), value |-> RawMap[i].value.num]

\* C29: each key of the raw map contributes at most one entry (a key pushed by
\* pass 1 is not pushed again by pass 2): an entry is in the output no more
\* often than there are keys with a numeric value that stand for it, and the
\* output has no more entries than the raw map has keys.
OneEntryPerKey ==
  HasNormalized =>
    /\ Len(Output) <= Len(RawMap)
    /\ \A n \in 1..Len(Output) :
         Occurrences(Output, Output[n])
           <= Cardinality({i \in 1..Len(RawMap) :
                 RawMap[i].value.type = "number" /\ EntryOf(i) = Output[n]})

\* A bonus key of the catalog, which both passes would select, has been
\* normalized to one entry.
CatalogBonusDisplayedOnce ==
  /\ HasNormalized
  /\ \E i \in 1..Len(RawMap) :
       /\ BonusPrefixed(RawMap[i].key)
       /\ InCatalog(RawMap[i].key)
       /\ NumericNonzero(RawMap[i].value)
       /\ Occurrences(Output, EntryOf(i)) = 1

\* The raw keys the single-pass reference selects.
Displayable(i) ==
  /\ NumericNonzero(RawMap[i].value)
  /\ \/ BonusPrefixed(RawMap[i].key)
     \/ RawMap[i].key \in AllowListedKeys /\ InCatalog(RawMap[i].key)

\* C30: the output's entries are exactly the pairs (L(k), v) of the raw keys
\* k whose value v is a nonzero number and that are bonus-prefixed or
\* allow-listed keys of the catalog, L(k) being the catalog label of k when
\* the catalog holds k and the humanized key otherwise.
OutputEqualsSinglePass ==
  HasNormalized =>
    /\ Len(Output) = Cardinality({i \in 1..Len(RawMap) : Displayable(i)})
    /\ \A i \in 1..Len(RawMap) :
         Displayable(i) =>
           Occurrences(Output, EntryOf(i))
             = Cardinality({j \in 1..Len(RawMap) :
                              Displayable(j) /\ EntryOf(j) = EntryOf(i)})

\* An allow-listed key that is no bonus and a bonus the catalog does not
\* hold, one for each pass, have been normalized to two entries.
BothPassesContributed ==
  /\ HasNormalized
  /\ Len(Output) = 2
  /\ \E i, j \in 1..Len(RawMap) :
       /\ RawMap[i].key \in AllowListedKeys /\ ~BonusPrefixed(RawMap[i].key)
       /\ BonusPrefixed(RawMap[j].key) /\ ~InCatalog(RawMap[j].key)
       /\ Displayable(i) /\ Displayable(j)


\* ------------------------------------------------------- labels as keys
\* C31: no two entries of the normalizer's output carry the same label,
\* also when several bonus keys unknown to the catalog are humanized and when
\* a humanized label coincides with a catalog label.
LabelsAreUnique ==
  HasNormalized =>
    \A m, n \in 1..Len(Output) : m # n => Output[m].label # Output[n].label

\* ------------------------------------------------------ session invariants
\* C32: while no identity is resolved, the league list is empty, no league is
\* selected and no league detail is held.
NothingHeldWithoutUser ==
  resolvedUser = Null =>
    leagues = <<>> /\ selectedLeagueId = "" /\ selectedLeagueDetails = Null

\* C33: a held league detail matches the selection: selectedLeagueId is not
\* empty and is the id the detail was requested for.
DetailMatchesSelection ==
  selectedLeagueDetails # Null =>
    /\ selectedLeagueId # ""
    /\ selectedLeagueDetails[1].league_id = selectedLeagueId

\* C34: a selected league is one of the leagues of the held list.
SelectionIsListed ==
  selectedLeagueId # "" =>
    \E n \in 1..Len(leagues) : leagues[n].league_id = selectedLeagueId

\* C38: at most one league-detail request is in flight at any time.
OneDetailRequestInFlight ==
  Cardinality({i \in 1..Len(pending) : pending[i].kind = "details"}) <= 1

\* A detail request is in flight for the selected league, with other leagues
\* in the list to pick from.
DetailRequestedWithOtherLeaguesListed ==
  /\ \E i \in 1..Len(pending) :
       pending[i].kind = "details" /\ pending[i].arg = selectedLeagueId
  /\ Len(leagues) > 1
  /\ resolvedUser # Null
  /\ ~isLoading

\* ------------------------------------------------- resolution and requests
\* C35: each successful identity resolution issues exactly one enumeration
\* request: the direct call of the submission flow and the effect on the
\* resolved user's id never both issue one.
OneEnumerationPerResolution ==
  [][lastEvent'.type = "resolveArrives" /\ ~ResolutionFailed(lastEvent'.response)
       => Cardinality({j \in 1..Len(Issued) : Issued[j].kind = "leagues"}) = 1]_vars

\* C40: the identity resolver never raises: for every answer its promise is
\* fulfilled, and for every failure (no base URL, non-2xx status, transport
\* failure, unparseable body) the value carries an error and no user id, so
\* the submission flow shows that error through its 'could not resolve'
\* branch and holds no user.
ResolverNeverRaises ==
  [][/\ lastEvent'.type = "resolveArrives" =>
          LET settled == resolveSleeperInputSettled(lastEvent'.response)
          IN  /\ settled.outcome = "returns"
              /\ ~Succeeded(lastEvent'.response) =>
                   /\ Truthy(settled.value.error)
                   /\ settled.value.user_id = ""
                   /\ error' = settled.value.error
                   /\ resolvedUser' = Null
     /\ (lastEvent'.type \in {"submit", "myId"} /\ API_BASE_URL = Null
           /\ (lastEvent'.type = "submit" => Trim(inputValue) # ""))
        => /\ Truthy(resolveSleeperInputUnconfigured.error)
           /\ resolveSleeperInputUnconfigured.user_id = ""
           /\ error' = resolveSleeperInputUnconfigured.error
           /\ resolvedUser' = Null
           /\ pending' = pending]_vars

\* A resolution request has been answered with a body that does not parse.
ResolutionAnsweredUnparseable ==
  /\ lastEvent.type = "resolveArrives"
  /\ lastEvent.response = Http(200, Null)
  /\ error = Some(JsonParseMessage)
  /\ resolvedUser = Null

\* ------------------------------------------------- the fallback pass
\* What pass 1 leaves for pass 2 on the raw map just normalized.
AfterCatalogPass ==
  CatalogPass(lastEvent.module.UNIQUE_SCORING_RULES, RawMap,
              1, Len(lastEvent.module.UNIQUE_SCORING_RULES),
              [display |-> <<>>, processedKeys |-> {}])

\* The raw keys pass 2 emits an entry for.
FallbackKeys ==
  {RawMap[i].key : i \in {j \in 1..Len(RawMap) :
      /\ RawMap[j].key \notin AfterCatalogPass.processedKeys
      /\ BonusPrefixed(RawMap[j].key)
      /\ NumericNonzero(RawMap[j].value)}}

\* C39: the fallback pass never emits an entry for a key the catalog
\* contains: every key it selects is absent from the catalog, so its lookup
\* of a catalog label never finds a rule.
FallbackLookupFindsNoRule ==
  HasNormalized =>
    \A k \in FallbackKeys :
      /\ ~InCatalog(k)
      /\ FindRule(lastEvent.module.UNIQUE_SCORING_RULES, k) = 0

\* A raw map with a nonzero catalog bonus key and a nonzero bonus key outside
\* the catalog has been normalized: pass 2 emitted the second key only.
FallbackEmittedBesideCatalogBonus ==
  /\ HasNormalized
  /\ FallbackKeys # {}
  /\ \E i \in 1..Len(RawMap) :
       /\ BonusPrefixed(RawMap[i].key) /\ InCatalog(RawMap[i].key)
       /\ NumericNonzero(RawMap[i].value)
       /\ RawMap[i].key \notin FallbackKeys

\* ------------------------------------------------- answers in issue order
\* C36: when the answers arrive in the order the requests were issued, every
\* state with no request in flight and a resolved user holds in leagues the
\* outcome of the enumeration for that user's id and the season selected:
\* the backend's list for the pair, or the empty list of a failed request.
QuiescentLeaguesAreCurrent ==
  (pending = <<>> /\ resolvedUser # Null) =>
     leagues \in {BackendLeagues(resolvedUser[1].user_id, leagueYear), <<>>}

\* ------------------------------------------------- the loading flags settle
\* A step of the user: anything but the arrival of an answer.
OnlyArrivals ==
  lastEvent'.type \in {"resolveArrives", "leaguesArrive", "detailsArrive"}

\* C37: if every request eventually completes and the user eventually stops
\* issuing triggers, the session eventually reaches and stays in a state
\* where isLoading and isLoadingDetails are both false.
LoadingFlagsSettle ==
  <>[][OnlyArrivals]_vars => <>[](~isLoading /\ ~isLoadingDetails)

\* The last request in flight, one for league details, has been answered and
\* both flags are down.
SettledAfterDetails ==
  /\ lastEvent.type = "detailsArrive"
  /\ pending = <<>>
  /\ ~isLoading /\ ~isLoadingDetails
====
